---- MODULE Spec2Model ----
(***************************************************************************)
(* Avalanche / cascade simulation engine of the quantum-avalanche scripts. *)
(*                                                                         *)
(* Edge weights, thresholds, bias strengths and boosts are real numbers in *)
(* the source; here they are integers in units of 0.01 (1.05 is 105).      *)
(* Thresholds, bias strengths and boosts are whole hundredths in the       *)
(* source; a weight w is kept as ceil(100 * w), which leaves the outcome   *)
(* of every test `w + delta > threshold` as it is in the source.           *)
(* Only apply_or_bias adds an amount that is no whole hundredth; its       *)
(* networks are kept in a finer unit, stated with its action.              *)
(*                                                                         *)
(* A network is its adjacency (per node, the neighbours in the order the   *)
(* edges were added: what G.neighbors(u) yields), the edge list that       *)
(* list(G.edges()) returns for it (each undirected edge once) and, per     *)
(* edge index, the attributes 'weight' and 'original_weight'.              *)
(***************************************************************************)
EXTENDS Integers, Sequences, FiniteSets

VARIABLES
    \* ---- the network G
    nodes, adj, edge_list, weight, original_weight,
    \* ---- avalanche_size (breadth-first cascade)
    source, threshold, visited, queue, size, bfs_pc,
    \* ---- avalanche extraction from a trace
    extractor, ext_threshold, trace, idx, current, in_avalanche,
    quiescence_count, avalanches, ext_result, ext_pc,
    \* ---- the simulation conditions (run_classical, run_quantum_*, run_mimic)
    version, call_pc, last_run, bias_fraction, bias_strength, bias_indices,
    sizes, last_eval, target_mean, boost, mimic_iter, n_evals, seeds,
    \* ---- the Monte Carlo driver
    mc_pc, N_nodes, base_bias_fraction, run, results, sizes_qp,
    \* ---- the stepped simulation (simulate_time_bins, simulate_epochs)
    sim, step_pc, refractory, step_bias, prob_fire, base_threshold, bias_nodes, shape, epoch, t_bin,
    last_active_mask, last_spontaneous, active_counts, phase_tags, prob,
    track_entropy, epoch_tags, time_tags,
    \* ---- the drivers monte_carlo_timebins and compare_conditions
    driver, drive_pc, drive_run, drive_cond, hash_of, drive_bias_nodes,
    trial_seeds, trial_nets, drive_results, drive_counts,
    \* ---- two executions of a program, for reproducibility
    program, proc, np_state, salt, repro_results,
    \* ---- the network constructors called repeatedly
    rng, built, jax_drawn,
    \* ---- the ring-lattice-plus-rewiring constructor
    ring_ctor, ring_n, ring_k, ring_edges, ring_i, rewired, ring_rewires, ring_pc,
    \* ---- the warnings a call has issued to its caller
    warnings,
    \* ---- apply_or_bias: its N_tubulins and the pair it returns
    N_tubulins, or_returned,
    \* ---- the effect-phase biases of the epoch-based Ising run
    ising_n, ising_hubs, ising_mode, ising_strength, ising_epoch, ising_pc, ising_biases,
    \* ---- the statistics of one sample (skewness, power-law fit)
    stat_fn, stat_sample, stat_xmin, stat_result, stat_pc,
    \* ---- simulate_cascade_steps (cascade by steps, for the animations)
    casc_activated, casc_frontier, casc_steps, casc_iter, casc_max, casc_pc

netVars == <<nodes, adj, edge_list, weight, original_weight>>
bfsVars == <<source, threshold, visited, queue, size, bfs_pc>>
extVars == <<extractor, ext_threshold, trace, idx, current, in_avalanche,
             quiescence_count, avalanches, ext_result, ext_pc>>
callVars == <<version, call_pc, last_run, bias_fraction, bias_strength, bias_indices,
              sizes, last_eval, target_mean, boost, mimic_iter, n_evals, seeds>>
mcVars == <<mc_pc, N_nodes, base_bias_fraction, run, results, sizes_qp>>
stepVars == <<sim, step_pc, refractory, step_bias, prob_fire, base_threshold, bias_nodes, shape, epoch, t_bin,
              last_active_mask, last_spontaneous, active_counts, phase_tags, prob,
              track_entropy, epoch_tags, time_tags>>
driveVars == <<driver, drive_pc, drive_run, drive_cond, hash_of, drive_bias_nodes,
               trial_seeds, trial_nets, drive_results, drive_counts>>
reproVars == <<program, proc, np_state, salt, repro_results>>
buildVars == <<rng, built, jax_drawn>>
ringVars == <<ring_ctor, ring_n, ring_k, ring_edges, ring_i, rewired, ring_rewires, ring_pc>>
warnVars == <<warnings>>
orVars == <<N_tubulins, or_returned>>
isingVars == <<ising_n, ising_hubs, ising_mode, ising_strength, ising_epoch, ising_pc,
               ising_biases>>
statVars == <<stat_fn, stat_sample, stat_xmin, stat_result, stat_pc>>
cascVars == <<casc_activated, casc_frontier, casc_steps, casc_iter, casc_max, casc_pc>>
tailVars == <<warnVars, orVars, isingVars, statVars, cascVars>>
otherVars == <<driveVars, reproVars, buildVars, ringVars, tailVars>>
vars == <<netVars, bfsVars, extVars, callVars, mcVars, stepVars, otherVars>>

----------------------------------------------------------------------------
(* Bounds of the model *)

\* nodes of a network handed to avalanche_size
BfsNodes == 3
\* most edges of a network handed to avalanche_size
BfsEdges == 3
\* longest trace of per-step counts or magnetizations handed to an extractor
MaxTrace == 4
\* largest per-step count in a trace
MaxCount == 2
\* longest history of spin configurations handed to an extractor
MaxHist == 4
\* spins per configuration
NumSpins == 2
\* most edges of a network handed to apply_bias on its own
MaxEdges == 6
\* nodes of the network the simulation conditions run on
CallNodes == 3
\* n_seeds: avalanches started per condition
NSeeds == 2
\* n_runs: trials of a Monte Carlo driver
MaxRuns == 3
\* N_nodes of a Monte Carlo driver called for fewer nodes than the k of its
\* networks
McNodes == 2
\* N of the network a stepped simulation runs on
StepNodes == 2
\* n_runs of monte_carlo_timebins and compare_conditions
DriveRuns == 2
\* n_runs of the driver that is executed twice
ReproRuns == 1
\* calls of a network constructor in one process
BuildCalls == 2
\* draws from np.random between two calls of a constructor, after a reseeding
MaxDrawn == 2
\* edges of one construction for which jr.uniform(subkey) < p
MaxRewires == 2
\* n_epochs of run_epoch_based_thrml
IsingEpochs == 2
\* length of a sample whose skewness is computed
MaxSample == 3
\* length of a sample a power law is fitted to
MaxFitSample == 11

----------------------------------------------------------------------------
(* Generic helpers *)

Min(S) == CHOOSE x \in S : \A y \in S : x <= y

RECURSIVE SortedSeq(_)
\* the elements of a finite set of integers, ascending
SortedSeq(S) == IF S = {} THEN <<>>
                ELSE <<Min(S)>> \o SortedSeq(S \ {Min(S)})

RECURSIVE Choices(_, _)
\* the subsets of n members of the finite set of integers S
Choices(S, n) ==
    IF n = 0 THEN {{}}
    ELSE IF Cardinality(S) < n THEN {}
    ELSE {T \cup {Min(S)} : T \in Choices(S \ {Min(S)}, n - 1)} \cup Choices(S \ {Min(S)}, n)

RECURSIVE SumSeq(_)
SumSeq(s) == IF s = <<>> THEN 0 ELSE Head(s) + SumSeq(Tail(s))

Range(s) == {s[i] : i \in 1..Len(s)}

\* all unordered pairs u < v over nodes 0..n-1, as <<u, v>>
AllPairs(n) == {<<u, v>> : u \in 0..(n-1), v \in 0..(n-1)} \ {p \in (0..(n-1)) \X (0..(n-1)) : p[1] >= p[2]}

----------------------------------------------------------------------------
(* The network: G.edges(), G.neighbors(u), G[u][v]['weight'] *)

\* the orders in which the members of T can stand in a list
Orders(T) == {sq \in [1..Cardinality(T) -> T] : \A i, j \in 1..Cardinality(T) : i # j => sq[i] # sq[j]}

\* the neighbours of u in the graph with the edge set S
NeighborsIn(S, u) == {p[2] : p \in {q \in S : q[1] = u}} \cup {p[1] : p \in {q \in S : q[2] = u}}

RECURSIVE AdjLists(_, _)
\* the adjacency lists of the nodes 0..k-1 of the graph with the edge set S,
\* node u at position u + 1: every order of every node's neighbours
AdjLists(S, k) ==
    IF k = 0 THEN {<<>>}
    ELSE {Append(a, o) : a \in AdjLists(S, k - 1), o \in Orders(NeighborsIn(S, k - 1))}

\* the adjacencies a graph on the nodes 0..n-1 with the edge set S can have
Adjacencies(S, n) == {[u \in 0..(n - 1) |-> a[u + 1]] : a \in AdjLists(S, n)}

RECURSIVE EdgesFrom(_, _, _)
\* G.edges() from node u on: for every node in node order, its neighbours
\* in adjacency order, the nodes already walked left out
EdgesFrom(a, u, n) ==
    IF u >= n THEN <<>>
    ELSE LET later == SelectSeq(a[u], LAMBDA v : v > u)
         IN [i \in 1..Len(later) |-> <<u, later[i]>>] \o EdgesFrom(a, u + 1, n)

\* list(G.edges()) of the graph on the nodes 0..n-1 with the adjacency a
EdgesOf(a, n) == EdgesFrom(a, 0, n)

RECURSIVE NeighborsAdded(_, _)
\* the adjacency list of u after the calls add_edge(e[1], e[2]) for e in ins:
\* a neighbour stands where its edge was added first
NeighborsAdded(ins, u) ==
    IF ins = <<>> THEN <<>>
    ELSE LET before == NeighborsAdded(SubSeq(ins, 1, Len(ins) - 1), u)
             e == ins[Len(ins)]
             v == IF e[1] = u THEN e[2] ELSE e[1]
         IN IF (e[1] = u \/ e[2] = u) /\ v \notin {before[i] : i \in 1..Len(before)}
            THEN Append(before, v)
            ELSE before

\* the adjacency of the graph on the nodes 0..n-1 built by adding ins in order
AdjacencyAdded(ins, n) == [u \in 0..(n - 1) |-> NeighborsAdded(ins, u)]

EdgeIdx == 1..Len(edge_list)

\* the edges at u, as indices into the edge list
IncidentEdges(u) == {i \in EdgeIdx : edge_list[i][1] = u \/ edge_list[i][2] = u}

OtherEnd(i, u) == IF edge_list[i][1] = u THEN edge_list[i][2] ELSE edge_list[i][1]

Neighbors(u) == {OtherEnd(i, u) : i \in IncidentEdges(u)}

\* G[u][v]['weight'] for an existing edge {u, v}, the weights being w
EdgeWeight(w, u, v) ==
    LET i == CHOOSE j \in EdgeIdx : edge_list[j] = <<u, v>> \/ edge_list[j] = <<v, u>>
    IN w[i]

----------------------------------------------------------------------------
(* avalanche_size(G, source, threshold): breadth-first cascade *)

\* faulty variant: an edge at exactly the threshold propagates
PropagatesAtOrAbove(w, t) == w >= t

\* the propagation test of the inner loop
Propagates(w, t) == w > t

\* for v in G.neighbors(u): the neighbours appended to the queue after u was
\* added to `vis`, in the order of u's adjacency
Enqueued(u, vis, w, t) ==
    SelectSeq(adj[u], LAMBDA v : Propagates(EdgeWeight(w, u, v), t) /\ v \notin vis)

RECURSIVE AvalancheLoop(_, _, _, _, _)
\* the while loop of avalanche_size run to its end: the returned size
AvalancheLoop(q, vis, sz, w, t) ==
    IF q = <<>> THEN sz
    ELSE LET u == Head(q)
         IN IF u \in vis
            THEN AvalancheLoop(Tail(q), vis, sz, w, t)
            ELSE AvalancheLoop(Tail(q) \o Enqueued(u, vis \cup {u}, w, t),
                               vis \cup {u}, sz + 1, w, t)

\* avalanche_size(G, source, threshold) with the weights w
AvalancheSize(w, s, t) == AvalancheLoop(<<s>>, {}, 0, w, t)

\* faulty variant: a node taken from the queue is never skipped
NeverSkipped(u) == FALSE

\* if u in visited: continue
Skipped(u) == u \in visited

\* one iteration of `while queue:`
AvalancheStep ==
    /\ bfs_pc = "loop"
    /\ queue # <<>>
    /\ LET u == Head(queue)
       IN IF Skipped(u)
          THEN /\ queue' = Tail(queue)
               /\ UNCHANGED <<visited, size>>
          ELSE /\ visited' = visited \cup {u}
               /\ size' = size + 1
               /\ queue' = Tail(queue) \o Enqueued(u, visited \cup {u}, weight, threshold)
    /\ UNCHANGED <<source, threshold, bfs_pc, netVars, extVars, callVars, mcVars, stepVars, otherVars>>

\* the loop exits on an empty queue: return size
AvalancheReturn ==
    /\ bfs_pc = "loop"
    /\ queue = <<>>
    /\ bfs_pc' = "done"
    /\ UNCHANGED <<source, threshold, visited, queue, size, netVars, extVars, callVars, mcVars, stepVars, otherVars>>

\* weights and thresholds offered to avalanche_size
BfsWeights == {100, 105, 110}
BfsThresholds == {0, 105}

\* the graphs handed to avalanche_size: every edge set of at most BfsEdges
\* edges on BfsNodes nodes, in every adjacency order, with every weight
BfsGraph ==
    /\ nodes = 0..(BfsNodes - 1)
    /\ \E S \in {T \in SUBSET AllPairs(BfsNodes) : Cardinality(T) <= BfsEdges} :
          /\ adj \in Adjacencies(S, BfsNodes)
          /\ edge_list = EdgesOf(adj, BfsNodes)
          /\ weight \in [1..Cardinality(S) -> BfsWeights]
    /\ original_weight = weight

\* visited = set(); queue = [source]; size = 0
BfsEntry(s, t) ==
    /\ source = s
    /\ threshold = t
    /\ visited = {}
    /\ queue = <<s>>
    /\ size = 0
    /\ bfs_pc = "loop"

BfsIdle ==
    /\ source = 0
    /\ threshold = 0
    /\ visited = {}
    /\ queue = <<>>
    /\ size = 0
    /\ bfs_pc = "idle"

ExtIdle ==
    /\ extractor = "none"
    /\ ext_threshold = 0
    /\ trace = <<>>
    /\ idx = 0
    /\ current = 0
    /\ in_avalanche = FALSE
    /\ quiescence_count = 0
    /\ avalanches = <<>>
    /\ ext_result = <<>>
    /\ ext_pc = "idle"

NoNetwork ==
    /\ nodes = {}
    /\ adj = <<>>
    /\ edge_list = <<>>
    /\ weight = <<>>
    /\ original_weight = <<>>

CallIdle ==
    /\ version = "none"
    /\ call_pc = "idle"
    /\ last_run = "none"
    /\ bias_fraction = 0
    /\ bias_strength = 0
    /\ bias_indices = {}
    /\ sizes = <<>>
    /\ last_eval = <<>>
    /\ target_mean = <<0, 1>>
    /\ boost = 0
    /\ mimic_iter = 0
    /\ n_evals = 0
    /\ seeds = <<>>

McOff ==
    /\ mc_pc = "off"
    /\ N_nodes = 0
    /\ base_bias_fraction = 0
    /\ run = 0
    /\ results = <<>>
    /\ sizes_qp = <<>>

StepOff ==
    /\ sim = "none"
    /\ step_pc = "off"
    /\ refractory = FALSE
    /\ step_bias = 0
    /\ prob_fire = 0
    /\ base_threshold = 0
    /\ bias_nodes = {}
    /\ shape = [n_bins |-> 0, n_epochs |-> 0, coherence_bins |-> 0, effect_bins |-> 0]
    /\ epoch = 0
    /\ t_bin = 0
    /\ last_active_mask = {}
    /\ last_spontaneous = {}
    /\ active_counts = <<>>
    /\ phase_tags = <<>>
    /\ prob = <<>>
    /\ epoch_tags = <<>>
    /\ time_tags = <<>>
    /\ track_entropy = FALSE

DriveOff ==
    /\ driver = "none"
    /\ drive_pc = "off"
    /\ drive_run = 0
    /\ drive_cond = 0
    /\ hash_of = <<>>
    /\ drive_bias_nodes = {}
    /\ trial_seeds = <<>>
    /\ trial_nets = <<>>
    /\ drive_results = <<>>
    /\ drive_counts = <<>>

ReproOff ==
    /\ program = "none"
    /\ proc = 0
    /\ np_state = <<>>
    /\ salt = <<>>
    /\ repro_results = <<>>

BuildOff ==
    /\ rng = <<>>
    /\ built = <<>>
    /\ jax_drawn = {}

RingOff ==
    /\ ring_ctor = "none"
    /\ ring_n = 0
    /\ ring_k = 0
    /\ ring_edges = <<>>
    /\ ring_i = 0
    /\ rewired = <<>>
    /\ ring_rewires = 0
    /\ ring_pc = "off"

NoWarnings == warnings = <<>>

OrOff ==
    /\ N_tubulins = 0
    /\ or_returned = <<>>

IsingOff ==
    /\ ising_n = 0
    /\ ising_hubs = {}
    /\ ising_mode = "off"
    /\ ising_strength = 0
    /\ ising_epoch = 0
    /\ ising_pc = "off"
    /\ ising_biases = <<>>

StatOff ==
    /\ stat_fn = "none"
    /\ stat_sample = <<>>
    /\ stat_xmin = 0
    /\ stat_result = <<>>
    /\ stat_pc = "off"

CascOff ==
    /\ casc_activated = {}
    /\ casc_frontier = {}
    /\ casc_steps = <<>>
    /\ casc_iter = 0
    /\ casc_max = 0
    /\ casc_pc = "off"

TailOff == NoWarnings /\ OrOff /\ IsingOff /\ StatOff /\ CascOff

OthersOff == DriveOff /\ ReproOff /\ BuildOff /\ RingOff /\ TailOff

InitBFS ==
    /\ ExtIdle
    /\ CallIdle
    /\ McOff
    /\ StepOff
    /\ OthersOff
    /\ BfsGraph
    /\ \E s \in 0..(BfsNodes - 1), t \in BfsThresholds : BfsEntry(s, t)

NextBFS == AvalancheStep \/ AvalancheReturn

SpecBFS == InitBFS /\ [][NextBFS]_vars

\* the call runs on: the interpreter executes the next iteration of the loop
\* or the return whenever there is one
SpecBFSLive == InitBFS /\ [][NextBFS]_vars /\ WF_vars(NextBFS)

\* the nodes joined to s by a path of `d` or fewer edges of weight > threshold
RECURSIVE ReachWithin(_, _)
ReachWithin(s, d) ==
    IF d = 0 THEN {s}
    ELSE LET R == ReachWithin(s, d - 1)
         IN R \cup {v \in nodes :
                      \E i \in EdgeIdx : /\ weight[i] > threshold
                                         /\ \E u \in R : edge_list[i] \in {<<u, v>>, <<v, u>>}}

\* C1: avalanche_size returns the number of nodes reachable from the seed
\* over edges of weight strictly greater than the threshold, the seed included
\* (so 1 when no edge at the seed is above the threshold).
C1_AvalancheSizeIsReach ==
    bfs_pc = "done" => size = Cardinality(ReachWithin(source, Cardinality(nodes)))

\* a finished cascade that spread over one edge and stopped at an edge whose
\* weight equals the threshold
C1_Witness ==
    /\ bfs_pc = "done"
    /\ size = 2
    /\ \E i \in IncidentEdges(source) : weight[i] = threshold
    /\ \E i \in IncidentEdges(source) : weight[i] > threshold

----------------------------------------------------------------------------
(* Avalanche extraction.                                                   *)
(*   "collapse_epochs"  collapse_to_avalanches(counts, threshold)          *)
(*   "collapse_v3"      collapse_to_avalanches(seq)                        *)
(*   "duration"         compute_avalanches_duration(magnetizations)        *)
(*   "size"             compute_avalanches_size(spin_history)              *)
(*   "true"             compute_true_avalanches(samples)                   *)
(* Counts are integers; a magnetization is the mean of +1/-1 spins and is  *)
(* kept in tenths (0.5 is 5); a spin history is a sequence of              *)
(* configurations, each a tuple of +1/-1.                                  *)
(***************************************************************************)

\* threshold=0.1 of compute_avalanches_duration, in tenths
DurationThreshold == 1
\* min_quiescence=2 of compute_true_avalanches
MinQuiescence == 2

Abs(x) == IF x < 0 THEN -x ELSE x

\* np.sum(spin_history[i] != spin_history[i-1])
Hamming(a, b) == Cardinality({k \in 1..Len(a) : a[k] # b[k]})

\* flip_counts: entry i compares configurations i and i+1
FlipCounts == [i \in 1..(IF Len(trace) = 0 THEN 0 ELSE Len(trace) - 1) |->
                 Hamming(trace[i + 1], trace[i])]

\* faulty variant: a step at the cut-off itself counts as active
SizeActiveAtCutoff(i) == FlipCounts[i] * Len(FlipCounts) * 10 >= SumSeq(FlipCounts) * 11

\* high_activity[i] of compute_avalanches_size:
\* flip_counts[i] > mean_flips * (1 + 0.1), cleared of the division
SizeActive(i) == FlipCounts[i] * Len(FlipCounts) * 10 > SumSeq(FlipCounts) * 11

\* float(activity[t]) > 0.05 of compute_true_avalanches, activity being the
\* fraction of nodes that flipped
TrueActive(i) == FlipCounts[i] * 100 > 5 * Len(trace[1])

\* the number of loop iterations of the running extractor
ExtSteps == IF extractor \in {"size", "true"} THEN Len(FlipCounts) ELSE Len(trace)

\* what the extractor's loop tests at step i
StepActive(i) ==
    CASE extractor = "collapse_epochs" -> trace[i] > ext_threshold
      [] extractor = "collapse_v3"     -> trace[i] > 0
      [] extractor = "duration"        -> Abs(trace[i]) > DurationThreshold
      [] extractor = "size"            -> SizeActive(i)
      [] extractor = "true"            -> TrueActive(i)

\* faulty variant: a duration avalanche grows by the step's magnitude
DurationIncrementByValue(i) == Abs(trace[i])

\* current += 1 of compute_avalanches_duration
DurationIncrement(i) == 1

\* what an active step adds to the running avalanche
StepAmount(i) ==
    CASE extractor = "collapse_epochs" -> trace[i]
      [] extractor = "collapse_v3"     -> trace[i]
      [] extractor = "duration"        -> DurationIncrement(i)
      [] extractor = "size"            -> FlipCounts[i]
      [] extractor = "true"            -> FlipCounts[i]

\* entry of an extractor; compute_avalanches_size returns an empty array for
\* a history of fewer than 2 configurations
ExtractEntry ==
    /\ ext_pc = "entry"
    /\ IF extractor = "size" /\ Len(trace) < 2
       THEN ext_pc' = "done"
       ELSE ext_pc' = "loop"
    /\ idx' = 1
    /\ UNCHANGED <<extractor, ext_threshold, trace, current, in_avalanche,
                   quiescence_count, avalanches, ext_result, netVars, bfsVars, callVars, mcVars, stepVars, otherVars>>

\* one iteration of the loop of collapse_to_avalanches (epochs),
\* compute_avalanches_duration and compute_avalanches_size
FlagStep ==
    /\ ext_pc = "loop"
    /\ extractor \in {"collapse_epochs", "duration", "size"}
    /\ idx <= ExtSteps
    /\ IF StepActive(idx)
       THEN /\ in_avalanche' = TRUE
            /\ current' = current + StepAmount(idx)
            /\ UNCHANGED avalanches
       ELSE IF in_avalanche
            THEN /\ avalanches' = Append(avalanches, current)
                 /\ current' = 0
                 /\ in_avalanche' = FALSE
            ELSE UNCHANGED <<avalanches, current, in_avalanche>>
    /\ idx' = idx + 1
    /\ UNCHANGED <<extractor, ext_threshold, trace, quiescence_count,
                   ext_result, ext_pc, netVars, bfsVars, callVars, mcVars, stepVars, otherVars>>

\* faulty variant: the run still open at the end of the trace is dropped
FlagReturnDropsOpenRun == avalanches

\* if in_avalanche: avalanches.append(current); return np.array(avalanches)
FlagReturned == IF in_avalanche THEN Append(avalanches, current) ELSE avalanches

FlagReturn ==
    /\ ext_pc = "loop"
    /\ extractor \in {"collapse_epochs", "duration", "size"}
    /\ idx > ExtSteps
    /\ ext_result' = FlagReturned
    /\ ext_pc' = "done"
    /\ UNCHANGED <<extractor, ext_threshold, trace, idx, current, in_avalanche,
                   quiescence_count, avalanches, netVars, bfsVars, callVars, mcVars, stepVars, otherVars>>

\* one iteration of the loop of collapse_to_avalanches (v3); `run` is `current`
RunStep ==
    /\ ext_pc = "loop"
    /\ extractor = "collapse_v3"
    /\ idx <= ExtSteps
    /\ IF StepActive(idx)
       THEN /\ current' = current + StepAmount(idx)
            /\ UNCHANGED avalanches
       ELSE IF current > 0
            THEN /\ avalanches' = Append(avalanches, current)
                 /\ current' = 0
            ELSE UNCHANGED <<avalanches, current>>
    /\ idx' = idx + 1
    /\ UNCHANGED <<extractor, ext_threshold, trace, in_avalanche, quiescence_count,
                   ext_result, ext_pc, netVars, bfsVars, callVars, mcVars, stepVars, otherVars>>

\* if run > 0: aval.append(run); return np.array(aval)
RunReturn ==
    /\ ext_pc = "loop"
    /\ extractor = "collapse_v3"
    /\ idx > ExtSteps
    /\ ext_result' = IF current > 0 THEN Append(avalanches, current) ELSE avalanches
    /\ ext_pc' = "done"
    /\ UNCHANGED <<extractor, ext_threshold, trace, idx, current, in_avalanche,
                   quiescence_count, avalanches, netVars, bfsVars, callVars, mcVars, stepVars, otherVars>>

\* one iteration of the loop of compute_true_avalanches
TrueStep ==
    /\ ext_pc = "loop"
    /\ extractor = "true"
    /\ idx <= ExtSteps
    /\ IF StepActive(idx)
       THEN /\ in_avalanche' = TRUE
            /\ current' = current + StepAmount(idx)
            /\ quiescence_count' = 0
            /\ UNCHANGED avalanches
       ELSE /\ quiescence_count' = quiescence_count + 1
            /\ IF in_avalanche /\ quiescence_count + 1 >= MinQuiescence
               THEN /\ avalanches' = IF current > 0 THEN Append(avalanches, current)
                                                    ELSE avalanches
                    /\ current' = 0
                    /\ in_avalanche' = FALSE
               ELSE UNCHANGED <<avalanches, current, in_avalanche>>
    /\ idx' = idx + 1
    /\ UNCHANGED <<extractor, ext_threshold, trace, ext_result, ext_pc,
                   netVars, bfsVars, callVars, mcVars, stepVars, otherVars>>

\* close any ongoing avalanche;
\* return np.array(avalanche_sizes) if avalanche_sizes else np.array([0])
TrueReturn ==
    /\ ext_pc = "loop"
    /\ extractor = "true"
    /\ idx > ExtSteps
    /\ LET closed == IF current > 0 THEN Append(avalanches, current) ELSE avalanches
       IN ext_result' = IF closed # <<>> THEN closed ELSE <<0>>
    /\ ext_pc' = "done"
    /\ UNCHANGED <<extractor, ext_threshold, trace, idx, current, in_avalanche,
                   quiescence_count, avalanches, netVars, bfsVars, callVars, mcVars, stepVars, otherVars>>

\* the inputs offered to the extractors
SeqsUpTo(S, n) == UNION {[1..k -> S] : k \in 0..n}
CountTraces == SeqsUpTo(0..MaxCount, MaxTrace)
MagValues == {-5, 0, 1, 2, 10}
MagTraces == SeqsUpTo(MagValues, MaxTrace)
SpinConfigs == [1..NumSpins -> {-1, 1}]
SpinHistories == SeqsUpTo(SpinConfigs, MaxHist)
CollapseThresholds == {0, 1}

ExtEntry(e, th, tr) ==
    /\ extractor = e
    /\ ext_threshold = th
    /\ trace = tr
    /\ idx = 0
    /\ current = 0
    /\ in_avalanche = FALSE
    /\ quiescence_count = 0
    /\ avalanches = <<>>
    /\ ext_result = <<>>
    /\ ext_pc = "entry"

InitExtract ==
    /\ NoNetwork
    /\ BfsIdle
    /\ StepOff
    /\ OthersOff
    /\ CallIdle
    /\ McOff
    /\ \/ \E th \in CollapseThresholds, tr \in CountTraces : ExtEntry("collapse_epochs", th, tr)
       \/ \E tr \in CountTraces : ExtEntry("collapse_v3", 0, tr)
       \/ \E tr \in MagTraces : ExtEntry("duration", DurationThreshold, tr)
       \/ \E tr \in SpinHistories : ExtEntry("size", 0, tr)
       \/ \E tr \in SpinHistories \ {<<>>} : ExtEntry("true", 0, tr)

NextExtract ==
    \/ ExtractEntry
    \/ FlagStep
    \/ FlagReturn
    \/ RunStep
    \/ RunReturn
    \/ TrueStep
    \/ TrueReturn

SpecExtract == InitExtract /\ [][NextExtract]_vars

\* ---- what the extractors are to return, stated over the trace

\* the steps that open a maximal run of active steps
RunStarts == {i \in 1..ExtSteps : StepActive(i) /\ (i = 1 \/ ~StepActive(i - 1))}

\* the last step of the maximal run that opens at i
RunEnd(i) == CHOOSE j \in i..ExtSteps :
                /\ \A k \in i..j : StepActive(k)
                /\ (j = ExtSteps \/ ~StepActive(j + 1))

RECURSIVE SumCounts(_, _)
\* trace[i] + ... + trace[j]
SumCounts(i, j) == IF i > j THEN 0 ELSE trace[i] + SumCounts(i + 1, j)

RunValue(i) == IF extractor = "duration" THEN RunEnd(i) - i + 1
                                         ELSE SumCounts(i, RunEnd(i))

ExpectedRuns == [k \in 1..Cardinality(RunStarts) |-> RunValue(SortedSeq(RunStarts)[k])]

ActiveSteps == {i \in 1..ExtSteps : StepActive(i)}

RECURSIVE SumOver(_, _)
\* the sum of f[i] over the indices in S
SumOver(f, S) == IF S = {} THEN 0
                 ELSE LET i == Min(S) IN f[i] + SumOver(f, S \ {i})

SumAbs == SumOver([i \in 1..Len(trace) |-> Abs(trace[i])], 1..Len(trace))

\* C2: collapse_to_avalanches and compute_avalanches_duration emit one value
\* per maximal run of above-threshold steps, in trace order, a run still open
\* at the end of the trace included; the value is the run's sum of counts
\* (size-weighted) or its number of steps (duration).
C2_OneAvalanchePerRun ==
    (ext_pc = "done" /\ extractor \in {"collapse_epochs", "duration"})
        => ext_result = ExpectedRuns

\* a size-weighted extraction that returned two avalanches, the second one a
\* run of two steps still open at the end of the trace
C2_Witness ==
    /\ ext_pc = "done"
    /\ extractor = "collapse_epochs"
    /\ Len(ext_result) = 2
    /\ Len(trace) = MaxTrace
    /\ StepActive(Len(trace)) /\ StepActive(Len(trace) - 1)
    /\ ext_result[2] = trace[Len(trace)] + trace[Len(trace) - 1]

\* C3: every avalanche extractor returns strictly positive integers only; a
\* trace without an active step gives an empty list, never a list holding 0.
C3_OnlyPositiveSizes ==
    ext_pc = "done" => \A k \in 1..Len(ext_result) : ext_result[k] > 0

\* C4 as claimed: the sizes extracted in duration mode sum to at most the
\* per-step activity of the trace (the counts, or the magnetization
\* magnitudes, here in tenths), and in flip-count mode to the flips of the
\* active steps.
C4_SumBoundedByActivity ==
    ext_pc = "done" =>
        /\ extractor = "collapse_epochs" => SumSeq(ext_result) <= SumSeq(trace)
        /\ extractor = "duration" => SumSeq(ext_result) * 10 <= SumAbs
        /\ extractor = "size" => SumSeq(ext_result) = SumOver(FlipCounts, ActiveSteps)

\* C4 amended: size-weighted extraction sums to at most the per-step counts;
\* duration extraction sums to the number of active steps; flip-count
\* extraction sums to the flips of the active steps.
C4_SumConservation ==
    ext_pc = "done" =>
        /\ extractor = "collapse_epochs" => SumSeq(ext_result) <= SumSeq(trace)
        /\ extractor = "duration" => SumSeq(ext_result) = Cardinality(ActiveSteps)
        /\ extractor = "size" => SumSeq(ext_result) = SumOver(FlipCounts, ActiveSteps)

\* a duration extraction with two active steps, one of magnitude below 1
C4_Witness ==
    /\ ext_pc = "done"
    /\ extractor = "duration"
    /\ SumSeq(ext_result) = 2
    /\ \E i \in ActiveSteps : Abs(trace[i]) < 10

----------------------------------------------------------------------------
(* np.random, the generator the scripts seed and draw from.  After         *)
(* np.random.seed(s) the values it gives are fixed; those used here are    *)
(* tabulated from the generator's algorithm (the Mersenne Twister          *)
(* initialised by init_genrand(s), doubles of 53 bits, normal deviates by  *)
(* the polar method with the second deviate kept for the next call, and    *)
(* permutation by the shuffle that draws j = random_interval(i) for i from *)
(* n - 1 down to 1).                                                       *)
(*                                                                         *)
(* A normal deviate is kept in units of 0.000001, rounded up.  A weight of *)
(* a network whose cascades are run is kept in units of 0.01, rounded up:  *)
(* for a real w and a whole number d of hundredths, w + d/100 > 1.05 holds *)
(* exactly when ceil(100 * w) + d > 105, so every comparison with the      *)
(* threshold comes out as in the code; rounding to the nearest hundredth   *)
(* does not have this property.                                            *)
(***************************************************************************)

\* np.random.seed(sd); then np.random.normal(1.0, 0.12) again and again: the
\* k-th value, as ceil(1000000 * value)
NormalTable(sd) ==
    CASE sd = 0 ->
         <<1211687, 1048019, 1117449, 1268908, 1224107, 882727, 1114011, 981838,
           987614, 1049272, 1017286, 1174513, 1091325, 1014602, 1053264, 1040041,
           1179290, 975382, 1037569, 897509, 693642, 1078435, 1103733, 910941,
           1272371, 825477, 1005492, 977538, 1183934, 1176324, 1018594, 1045380,
           893466, 762305, 958251, 1018762, 1147635, 1144286, 953521, 963724,
           874174, 829598, 795248, 1234094, 938842, 947432, 849665, 1093299>>
      [] sd = 1 ->
         <<1194922, 926590, 936620, 871244, 1103849, 723816, 1209378, 908656,
           1038285, 970076, 1175453, 752784, 961310, 953914, 1136053, 868014,
           979309, 894657, 1005066, 1069938, 867926, 1137367, 1108191, 1060300,
           1108103, 917953, 985254, 887708, 967854, 1063643, 917001, 952390,
           917540, 898576, 919451, 998481, 865923, 1028130, 1199177, 1089046,
           976980, 893485, 910342, 1203095, 1006097, 923561, 1022910, 1252031>>
      [] sd = 2 ->
         <<949990, 993248, 743657, 1196833, 784788, 898991, 1060346, 850566,
           873046, 890920, 1066175, 1275065, 1004985, 865849, 1064687, 928461,
           997705, 1141001, 910256, 1001084, 894628, 981228, 1030789, 881347,
           959342, 971658, 923482, 857487, 829454, 981581, 967714, 1267765,
           707828, 1013528, 1044454, 1163157, 1060223, 898695, 1000002, 1065083,
           962380, 1092522, 775830, 1207743, 1176122, 959719, 1073361, 1005757>>
      [] sd = 3 ->
         <<1214636, 1052382, 1011580, 776381, 966714, 957429, 990072, 924760,
           994742, 942734, 842337, 1106155, 1105759, 1205149, 1006005, 951439,
           934557, 814423, 1117885, 867872, 857795, 975323, 1178338, 1028406,
           877146, 914441, 1075030, 980739, 907740, 972397, 1089407, 1237134,
           850706, 924830, 903549, 709711, 889145, 877135, 1134878, 984171,
           805206, 1077602, 957248, 790824, 928403, 929369, 895135, 1003566>>

\* np.random.normal(1.0, 0.12) in the state st = <<seed, number of calls of
\* np.random.normal since np.random.seed(seed)>>
Normal(st) == NormalTable(st[1])[st[2] + 1]

\* the state after n more calls
Advanced(st, n) == <<st[1], st[2] + n>>

\* ceil(100 * w) of the weight whose ceil(1000000 * w) is x
Hundredths(x) == (x + 9999) \div 10000

\* np.random.seed(sd); np.random.permutation(n)
PermutationOf(sd, n) ==
    CASE sd = 0 /\ n = 8 ->
         <<6, 2, 1, 7, 3, 0, 5, 4>>
      [] sd = 0 /\ n = 10 ->
         <<2, 8, 4, 9, 1, 6, 7, 3, 0, 5>>
      [] sd = 1 /\ n = 8 ->
         <<7, 2, 1, 6, 0, 4, 3, 5>>
      [] sd = 1 /\ n = 10 ->
         <<2, 9, 6, 4, 0, 3, 1, 7, 8, 5>>
      [] sd = 2 /\ n = 8 ->
         <<4, 1, 6, 2, 3, 7, 5, 0>>
      [] sd = 2 /\ n = 10 ->
         <<4, 1, 5, 0, 7, 2, 3, 6, 9, 8>>
      [] sd = 3 /\ n = 8 ->
         <<5, 7, 4, 6, 3, 1, 0, 2>>
      [] sd = 3 /\ n = 10 ->
         <<5, 4, 1, 2, 9, 6, 7, 0, 3, 8>>
      [] sd = 10000 /\ n = 8 ->
         <<7, 3, 6, 1, 2, 0, 5, 4>>
      [] sd = 10000 /\ n = 10 ->
         <<4, 6, 3, 1, 0, 9, 2, 7, 8, 5>>
      [] sd = 10001 /\ n = 8 ->
         <<0, 6, 2, 5, 3, 7, 4, 1>>
      [] sd = 10001 /\ n = 10 ->
         <<7, 0, 8, 5, 2, 3, 9, 6, 4, 1>>
      [] sd = 10002 /\ n = 8 ->
         <<0, 6, 4, 2, 3, 7, 5, 1>>
      [] sd = 10002 /\ n = 10 ->
         <<8, 6, 4, 0, 7, 2, 3, 9, 5, 1>>
      [] sd = 10003 /\ n = 8 ->
         <<3, 7, 0, 2, 4, 6, 1, 5>>
      [] sd = 10003 /\ n = 10 ->
         <<2, 3, 6, 9, 7, 0, 4, 8, 1, 5>>
      [] sd = 15000 /\ n = 28 ->
         <<14, 6, 19, 4, 7, 2, 11, 23, 17, 5, 1, 26, 12, 10, 15,
           22, 25, 21, 13, 18, 0, 16, 9, 3, 8, 27, 24, 20>>
      [] sd = 15000 /\ n = 45 ->
         <<36, 21, 4, 23, 22, 30, 11, 18, 2, 25, 37, 34, 17, 6, 41,
           12, 42, 7, 38, 14, 15, 19, 10, 29, 39, 33, 5, 1, 8, 28,
           26, 35, 9, 0, 13, 32, 27, 44, 16, 3, 40, 43, 24, 20, 31>>
      [] sd = 15001 /\ n = 28 ->
         <<9, 24, 18, 17, 2, 5, 14, 20, 6, 12, 13, 16, 7, 19, 25,
           15, 0, 23, 4, 26, 10, 8, 27, 11, 3, 21, 1, 22>>
      [] sd = 15001 /\ n = 45 ->
         <<18, 39, 32, 37, 21, 44, 19, 27, 5, 31, 25, 42, 30, 41, 36,
           16, 12, 14, 8, 2, 24, 6, 34, 43, 26, 9, 22, 7, 13, 28,
           17, 35, 23, 38, 15, 0, 20, 4, 33, 10, 40, 11, 3, 29, 1>>
      [] sd = 15002 /\ n = 28 ->
         <<23, 20, 21, 3, 12, 11, 9, 1, 13, 2, 18, 0, 4, 10, 26,
           24, 14, 27, 25, 6, 19, 8, 7, 17, 22, 15, 16, 5>>
      [] sd = 15002 /\ n = 45 ->
         <<17, 41, 36, 21, 13, 2, 24, 26, 8, 44, 38, 34, 3, 5, 39,
           40, 0, 9, 11, 4, 25, 1, 33, 32, 43, 16, 12, 20, 10, 35,
           14, 27, 18, 30, 42, 23, 6, 19, 7, 31, 22, 28, 15, 29, 37>>
      [] sd = 15003 /\ n = 28 ->
         <<18, 24, 22, 7, 1, 11, 27, 4, 3, 13, 5, 23, 6, 25, 10,
           19, 17, 12, 26, 9, 0, 15, 21, 16, 2, 20, 14, 8>>
      [] sd = 15003 /\ n = 45 ->
         <<2, 11, 43, 39, 44, 23, 7, 29, 20, 36, 31, 1, 14, 35, 22,
           28, 27, 9, 40, 18, 38, 26, 30, 21, 13, 24, 32, 17, 41, 19,
           15, 33, 4, 3, 37, 5, 6, 42, 10, 12, 0, 25, 16, 34, 8>>
      [] sd = 20000 /\ n = 8 ->
         <<1, 4, 2, 3, 6, 5, 7, 0>>
      [] sd = 20000 /\ n = 10 ->
         <<2, 7, 6, 1, 4, 3, 8, 5, 9, 0>>
      [] sd = 20001 /\ n = 8 ->
         <<0, 2, 4, 3, 6, 7, 1, 5>>
      [] sd = 20001 /\ n = 10 ->
         <<2, 4, 0, 8, 3, 1, 9, 7, 6, 5>>
      [] sd = 20002 /\ n = 8 ->
         <<0, 3, 2, 6, 5, 7, 4, 1>>
      [] sd = 20002 /\ n = 10 ->
         <<2, 5, 4, 3, 0, 6, 7, 8, 1, 9>>
      [] sd = 20003 /\ n = 8 ->
         <<3, 5, 2, 7, 1, 6, 0, 4>>
      [] sd = 20003 /\ n = 10 ->
         <<4, 9, 5, 6, 2, 3, 7, 1, 8, 0>>
      [] sd = 21000 /\ n = 8 ->
         <<6, 3, 2, 4, 7, 1, 0, 5>>
      [] sd = 21001 /\ n = 8 ->
         <<4, 7, 2, 0, 5, 1, 3, 6>>
      [] sd = 21002 /\ n = 8 ->
         <<2, 5, 3, 0, 4, 6, 7, 1>>
      [] sd = 21003 /\ n = 8 ->
         <<3, 2, 4, 0, 1, 5, 7, 6>>
      [] sd = 25000 /\ n = 45 ->
         <<34, 35, 28, 2, 14, 32, 13, 42, 40, 9, 25, 29, 23, 7, 27,
           19, 17, 4, 26, 21, 15, 11, 44, 10, 1, 30, 5, 22, 41, 24,
           37, 39, 12, 0, 36, 6, 33, 3, 43, 16, 8, 38, 20, 31, 18>>
      [] sd = 25001 /\ n = 45 ->
         <<30, 25, 44, 7, 39, 35, 12, 34, 40, 41, 36, 38, 2, 22, 32,
           29, 31, 4, 6, 21, 10, 17, 27, 9, 14, 0, 26, 42, 18, 28,
           5, 8, 24, 11, 16, 13, 15, 20, 37, 1, 19, 3, 43, 23, 33>>
      [] sd = 25002 /\ n = 45 ->
         <<20, 29, 35, 11, 2, 10, 9, 0, 38, 26, 6, 22, 21, 23, 37,
           12, 27, 44, 18, 17, 3, 15, 13, 33, 42, 36, 30, 5, 28, 19,
           34, 1, 40, 24, 31, 14, 32, 7, 41, 4, 25, 39, 8, 16, 43>>
      [] sd = 25003 /\ n = 45 ->
         <<43, 31, 34, 6, 16, 5, 14, 3, 27, 35, 38, 23, 22, 26, 10,
           19, 17, 15, 13, 0, 29, 28, 32, 42, 24, 20, 36, 9, 33, 7,
           12, 40, 30, 44, 25, 39, 11, 37, 8, 21, 41, 1, 4, 2, 18>>
      [] sd = 31000 /\ n = 10 ->
         <<9, 8, 4, 3, 0, 1, 6, 5, 2, 7>>
      [] sd = 31001 /\ n = 10 ->
         <<7, 8, 5, 9, 1, 3, 2, 4, 6, 0>>
      [] sd = 31002 /\ n = 10 ->
         <<8, 5, 6, 7, 2, 9, 3, 4, 0, 1>>
      [] sd = 31003 /\ n = 10 ->
         <<9, 6, 7, 0, 2, 1, 4, 3, 5, 8>>

\* the seed of a call made on its own: the caller may pass any seed, so the
\* draws made under it are any the generator can give
AnySeed == 0 - 2

\* seed + d, of a seed the caller passed
Offset(seed, d) == IF seed = AnySeed THEN AnySeed ELSE seed + d

----------------------------------------------------------------------------
(* reset_network and apply_bias.  A bias fraction is kept in tenths (0.5   *)
(* is 5), so int(len(edge_list) * bias_fraction) is (E * f) \div 10.       *)
(***************************************************************************)

Max(a, b) == IF a >= b THEN a ELSE b

\* faulty variant: the weights are left as the previous condition set them
NoReset == weight

\* reset_network(G): every weight back to its original_weight
ResetNetwork == original_weight

\* faulty variant: reset_network copies the current weight into original_weight
OriginalWeightOverwritten == weight

\* reset_network(G) reads G[u][v]['original_weight'] and assigns only
\* G[u][v]['weight']; so do apply_bias and the boost of the mimic
OriginalWeightAfterReset == original_weight

\* n_bias of apply_bias in quantum_avalanche_v2: int(len(edge_list) * bias_fraction)
NBiasV2(E, f) == (E * f) \div 10

\* n_bias of apply_bias in quantum_avalanche_v3: max(1, int(...))
NBiasV3(E, f) == Max(1, (E * f) \div 10)

\* apply_or_bias takes int(...) edges, as v2
NBias(ver, E, f) == IF ver \in {"v2", "integrated"} THEN NBiasV2(E, f) ELSE NBiasV3(E, f)

\* if seed is not None: np.random.seed(seed)
\* np.random.choice(len(edge_list), size=n_bias, replace=False): the first
\* n_bias entries of np.random.permutation(len(edge_list)), as indices from 1;
\* under a seed the caller chooses freely, any n_bias distinct indices (v2
\* returns before the draw when n_bias is 0)
BiasDraws(ver, f, seed) ==
    IF seed = AnySeed
    THEN Choices(EdgeIdx, NBias(ver, Len(edge_list), f))
    ELSE {{PermutationOf(seed, Len(edge_list))[i] + 1 : i \in 1..NBias(ver, Len(edge_list), f)}}

\* G[u][v]['weight'] += bias_strength for every drawn index
Biased(w, S, strength) ==
    [i \in DOMAIN w |-> IF i \in S THEN w[i] + strength ELSE w[i]]

\* apply_bias(G, bias_fraction, bias_strength) called on its own; neither the
\* early return of v2 nor any other path issues a warning or returns a value
ApplyBias(ver) ==
    /\ call_pc = "idle"
    /\ last_run = "none"
    /\ version = ver
    /\ \E S \in BiasDraws(ver, bias_fraction, AnySeed) :
          /\ bias_indices' = S
          /\ weight' = Biased(weight, S, bias_strength)
    /\ last_run' = "apply_bias"
    /\ UNCHANGED <<nodes, adj, edge_list, original_weight, version, call_pc, bias_fraction,
                   bias_strength, sizes, last_eval, target_mean, boost, mimic_iter,
                   n_evals, seeds, bfsVars, extVars, mcVars, stepVars, otherVars>>

ApplyBiasV2 == ApplyBias("v2")
ApplyBiasV3 == ApplyBias("v3")

\* the fractions and strengths offered to apply_bias
BiasFractions == {0, 1, 5, 10}
BiasStrengths == {-5, 5}

\* a path of E edges, every weight 1.00, which is `one` in the unit in use
PathNetworkAt(E, one) ==
    /\ nodes = 0..E
    /\ adj = AdjacencyAdded([i \in 1..E |-> <<i - 1, i>>], E + 1)
    /\ edge_list = [i \in 1..E |-> <<i - 1, i>>]
    /\ weight = [i \in 1..E |-> one]
    /\ original_weight = weight

\* a path of E edges, every weight 1.00
PathNetwork(E) == PathNetworkAt(E, 100)

InitBias ==
    /\ BfsIdle
    /\ ExtIdle
    /\ StepOff
    /\ OthersOff
    /\ McOff
    /\ \E E \in 1..MaxEdges : PathNetwork(E)
    /\ version \in {"v2", "v3"}
    /\ bias_fraction \in BiasFractions
    /\ bias_strength \in BiasStrengths
    /\ call_pc = "idle"
    /\ last_run = "none"
    /\ bias_indices = {}
    /\ sizes = <<>>
    /\ last_eval = <<>>
    /\ target_mean = <<0, 1>>
    /\ boost = 0
    /\ mimic_iter = 0
    /\ n_evals = 0
    /\ seeds = <<>>

NextBias == ApplyBiasV2 \/ ApplyBiasV3

SpecBias == InitBias /\ [][NextBias]_vars

\* round(E * f / 10), halves to the even neighbour as Python's round does
RoundTenths(E, f) ==
    LET q == (E * f) \div 10
        r == (E * f) % 10
    IN IF r > 5 \/ (r = 5 /\ q % 2 = 1) THEN q + 1 ELSE q

ModifiedEdges == {i \in EdgeIdx : weight[i] # original_weight[i]}

\* C9: an edge bias of fraction f on E edges modifies exactly round(f * E)
\* distinct edges, so none for f = 0.0 and every edge for f = 1.0.
C9_ModifiesRoundOfFractionTimesEdges ==
    last_run = "apply_bias" =>
        Cardinality(ModifiedEdges) = RoundTenths(Len(edge_list), bias_fraction)

----------------------------------------------------------------------------
(* The simulation conditions of quantum_avalanche_v2 and _v3:              *)
(* run_classical, run_quantum / run_quantum_positive, run_quantum_negative *)
(* and run_classical_mimic / run_mimic, on one network.                    *)
(***************************************************************************)

\* threshold=1.05
CallThreshold == 105
\* bias_strength=0.05
QuantumStrength == 5
\* boost += 0.02
BoostStep == 2
\* max_boost=0.15
MaxBoost == 15

\* faulty variant: one more pass of the calibration loop
MimicIterationsPlusOne == 5 + 1

\* for _ in range(5)
MimicIterations == 5

\* a mean is kept as <<sum, count>>; np.mean(sizes) < target_mean
MeanLess(sz, tm) == SumSeq(sz) * tm[2] < tm[1] * Len(sz)

\* np.mean(sizes)
MeanOf(sz) == <<SumSeq(sz), Len(sz)>>

\* np.random.seed(seed)
\* np.random.choice(nodes, size=min(n_seeds, len(nodes)), replace=False):
\* nodes is range(N), so the draw is the head of np.random.permutation(N);
\* under a seed the caller chooses freely, that many distinct nodes in any
\* order
SeedDraws(seed) ==
    LET k == IF NSeeds <= Cardinality(nodes) THEN NSeeds ELSE Cardinality(nodes)
    IN IF seed = AnySeed
       THEN {sq \in [1..k -> nodes] : \A i, j \in 1..k : i # j => sq[i] # sq[j]}
       ELSE {SubSeq(PermutationOf(seed, Cardinality(nodes)), 1, k)}

\* faulty variant: the avalanche of the last seed is left out
RunAvalanchesLastSkipped(w, sd, t) == [k \in 1..(Len(sd) - 1) |-> AvalancheSize(w, sd[k], t)]

\* run_avalanches: np.array([avalanche_size(G, s, threshold) for s in seeds])
RunAvalanches(w, sd, t) == [k \in 1..Len(sd) |-> AvalancheSize(w, sd[k], t)]

\* G[u][v]['weight'] = G[u][v]['original_weight'] + boost, for every edge
Boosted(b) == [i \in EdgeIdx |-> original_weight[i] + b]

\* the locals of apply_bias and of the mimic live only within their call
NoBiasLocals ==
    /\ bias_fraction' = 0
    /\ bias_strength' = 0
    /\ bias_indices' = {}

NoMimicLocals ==
    /\ target_mean' = <<0, 1>>
    /\ boost' = 0
    /\ mimic_iter' = 0
    /\ n_evals' = 0

\* run_classical(G, n_seeds, threshold, seed)
RunClassicalBody(seed) ==
    /\ call_pc = "idle"
    /\ weight' = ResetNetwork
    /\ \E sd \in SeedDraws(seed) :
          /\ seeds' = sd
          /\ sizes' = RunAvalanches(ResetNetwork, sd, CallThreshold)
          /\ last_eval' = sizes'
    /\ last_run' = "classical"
    /\ NoBiasLocals
    /\ NoMimicLocals
    /\ original_weight' = OriginalWeightAfterReset
    /\ UNCHANGED <<nodes, adj, edge_list, version, call_pc, bfsVars, extVars, stepVars, otherVars>>

\* run_quantum (v2), run_quantum_positive and run_quantum_negative (v3):
\* reset_network, apply_bias with the signed strength under seed + 5000,
\* run_avalanches under seed
RunQuantumBody(cond, strength, fractions, seed) ==
    /\ call_pc = "idle"
    /\ \E f \in fractions :
       \E S \in BiasDraws(version, f, Offset(seed, 5000)) :
       \E sd \in SeedDraws(seed) :
          /\ bias_fraction' = f
          /\ bias_strength' = strength
          /\ bias_indices' = S
          /\ weight' = Biased(ResetNetwork, S, strength)
          /\ seeds' = sd
          /\ sizes' = RunAvalanches(Biased(ResetNetwork, S, strength), sd, CallThreshold)
          /\ last_eval' = sizes'
    /\ last_run' = cond
    /\ NoMimicLocals
    /\ original_weight' = OriginalWeightAfterReset
    /\ UNCHANGED <<nodes, adj, edge_list, version, call_pc, bfsVars, extVars, stepVars, otherVars>>

\* entry of run_mimic (v3) and run_classical_mimic (v2) with target mean tm.
\* v3: reset_network; boost = 0.  v2: reset_network, measure the baseline
\* under `seed` and return it when its mean is already at the target.
\* `seeds` is the draw under seed + 1000, the same at every pass of the loop.
MimicStartBody(tm, seed) ==
    /\ call_pc = "idle"
    /\ weight' = ResetNetwork
    /\ target_mean' = tm
    /\ boost' = 0
    /\ mimic_iter' = 0
    /\ n_evals' = 0
    /\ IF version = "v2"
       THEN \E bsd \in SeedDraws(seed) :
               LET baseline_sizes == RunAvalanches(ResetNetwork, bsd, CallThreshold)
               IN IF ~MeanLess(baseline_sizes, tm)
                  THEN /\ sizes' = baseline_sizes
                       /\ last_eval' = baseline_sizes
                       /\ seeds' = bsd
                       /\ call_pc' = "idle"
                       /\ last_run' = "mimic"
                  ELSE /\ last_eval' = baseline_sizes
                       /\ seeds' \in SeedDraws(Offset(seed, 1000))
                       /\ call_pc' = "mimic_loop"
                       /\ UNCHANGED <<sizes, last_run>>
       ELSE /\ seeds' \in SeedDraws(Offset(seed, 1000))
            /\ last_eval' = <<>>
            /\ call_pc' = "mimic_loop"
            /\ UNCHANGED <<sizes, last_run>>
    /\ NoBiasLocals
    /\ original_weight' = OriginalWeightAfterReset
    /\ UNCHANGED <<nodes, adj, edge_list, version, bfsVars, extVars, stepVars, otherVars>>

\* whether the pass that measured sz goes on to another pass.
\* v3: if np.mean(sizes) < target_mean and boost < max_boost: boost += 0.02
\*     else: break
\* v2: if current_mean < target_mean: boost += 0.02  else: break
\*     if boost > max_boost: break
MimicContinues(sz) ==
    IF version = "v2"
    THEN MeanLess(sz, target_mean) /\ ~(boost + BoostStep > MaxBoost)
    ELSE MeanLess(sz, target_mean) /\ boost < MaxBoost

\* whether the pass that measured sz raises the boost
MimicRaises(sz) ==
    IF version = "v2"
    THEN MeanLess(sz, target_mean)
    ELSE MeanLess(sz, target_mean) /\ boost < MaxBoost

\* one pass of the calibration loop
MimicEval ==
    /\ call_pc = "mimic_loop"
    /\ mimic_iter < MimicIterations
    /\ LET sz == RunAvalanches(Boosted(boost), seeds, CallThreshold)
       IN /\ weight' = Boosted(boost)
          /\ sizes' = sz
          /\ last_eval' = sz
          /\ n_evals' = n_evals + 1
          /\ mimic_iter' = mimic_iter + 1
          /\ boost' = IF MimicRaises(sz) THEN boost + BoostStep ELSE boost
          /\ call_pc' = IF MimicContinues(sz) /\ mimic_iter + 1 < MimicIterations
                        THEN "mimic_loop" ELSE "mimic_return"
    /\ original_weight' = OriginalWeightAfterReset
    /\ UNCHANGED <<nodes, adj, edge_list, version, last_run, bias_fraction,
                   bias_strength, bias_indices, target_mean, seeds,
                   bfsVars, extVars, mcVars, stepVars, otherVars>>

\* return sizes
MimicReturn ==
    /\ call_pc = "mimic_return"
    /\ call_pc' = "idle"
    /\ last_run' = "mimic"
    /\ UNCHANGED <<netVars, version, bias_fraction, bias_strength, bias_indices, sizes,
                   last_eval, target_mean, boost, mimic_iter, n_evals, seeds,
                   bfsVars, extVars, mcVars, stepVars, otherVars>>

\* ---- the conditions called in any order on one network

RunClassical == RunClassicalBody(AnySeed) /\ UNCHANGED mcVars

QuantumFractions == {1, 5}

RunQuantumPositive ==
    /\ RunQuantumBody("quantum_positive", QuantumStrength, QuantumFractions, AnySeed)
    /\ UNCHANGED mcVars

\* quantum_avalanche_v2 has no veto condition
RunQuantumNegative ==
    /\ version = "v3"
    /\ RunQuantumBody("quantum_negative", -QuantumStrength, QuantumFractions, AnySeed)
    /\ UNCHANGED mcVars

\* the target means offered to the mimic: 1, 2, ... up to one more than
\* the number of nodes, which no avalanche reaches
MimicTargets == {<<k, 1>> : k \in 1..(CallNodes + 1)}

RunMimicStart ==
    /\ \E tm \in MimicTargets : MimicStartBody(tm, AnySeed)
    /\ UNCHANGED mcVars

\* the weights offered to create_network.  A call compares w + d with the
\* threshold 1.05 for d = 0, the bias 0.05, the veto -0.05 and the boosts
\* 0.02, 0.04, 0.06, 0.08 the calibration evaluates, so two weights between
\* the same two of 0.97, 0.99, 1.00, 1.01, 1.03, 1.05, 1.10 behave alike in
\* every call; one weight of each of the eight kinds is offered
CallWeights == {96, 98, 100, 101, 102, 104, 108, 114}

\* G.add_edges_from(zip(nodes, targets)) of watts_strogatz_graph(N, 2, p):
\* the edges (u, (u + 1) % N) in node order
RingAdded(N) == [i \in 1..N |-> <<i - 1, i % N>>]

\* the adjacency of the ring lattice with no edge rewired
RingAdjacency(N) == AdjacencyAdded(RingAdded(N), N)

\* list(G.edges()) of the ring lattice with no edge rewired
RingEdges(N) == EdgesOf(RingAdjacency(N), N)

\* create_network(N, k=2, p=0.0): the ring lattice, and per edge a weight and
\* its original_weight
CreatedNetwork(N, nd, ad, el, w) ==
    /\ nd = 0..(N - 1)
    /\ ad = RingAdjacency(N)
    /\ el = RingEdges(N)
    /\ w \in [1..Len(RingEdges(N)) -> CallWeights]

CallReady ==
    /\ version \in {"v2", "v3"}
    /\ call_pc = "idle"
    /\ last_run = "none"
    /\ bias_fraction = 0
    /\ bias_strength = 0
    /\ bias_indices = {}
    /\ sizes = <<>>
    /\ last_eval = <<>>
    /\ target_mean = <<0, 1>>
    /\ boost = 0
    /\ mimic_iter = 0
    /\ n_evals = 0
    /\ seeds = <<>>

InitCalls ==
    /\ BfsIdle
    /\ ExtIdle
    /\ StepOff
    /\ OthersOff
    /\ McOff
    /\ CreatedNetwork(CallNodes, nodes, adj, edge_list, original_weight)
    /\ weight = original_weight
    /\ CallReady

NextCalls ==
    \/ RunClassical
    \/ RunQuantumPositive
    \/ RunQuantumNegative
    \/ RunMimicStart
    \/ MimicEval
    \/ MimicReturn

SpecCalls == InitCalls /\ [][NextCalls]_vars

\* the condition whose call returned last, and nothing in flight
Returned(cond) == call_pc = "idle" /\ last_run = cond

\* C5: after a run_* call every edge's weight is its original_weight, or
\* original_weight plus one delta on exactly the edges the condition selected:
\* none for classical, the n_bias drawn edges for quantum (+) and (-), every
\* edge for the mimic.  No bias or boost of an earlier call is left over.
C5_WeightsAreOriginalPlusOneDelta ==
    /\ Returned("classical") => weight = original_weight
    /\ (Returned("quantum_positive") \/ Returned("quantum_negative")) =>
          /\ Cardinality(bias_indices) = NBias(version, Len(edge_list), bias_fraction)
          /\ \A i \in EdgeIdx :
                weight[i] = original_weight[i] + (IF i \in bias_indices THEN bias_strength ELSE 0)
    /\ Returned("mimic") =>
          \E d \in 0..MaxBoost : \A i \in EdgeIdx : weight[i] = original_weight[i] + d

\* a veto call has returned with some edge lowered and some edge untouched
C5_Witness ==
    /\ Returned("quantum_negative")
    /\ \E i \in EdgeIdx : weight[i] = original_weight[i] - QuantumStrength
    /\ \E i \in EdgeIdx : weight[i] = original_weight[i]

\* the mean avalanche size under a uniform boost b, with the calibration's seeds
MeanReachedAt(b) == ~MeanLess(RunAvalanches(Boosted(b), seeds, CallThreshold), target_mean)

\* C7: when some uniform boost within [0, max_boost] attains the target mean,
\* the mimic returns sizes whose mean reaches the target, within 1%.
C7_MimicReachesAttainableTarget ==
    (Returned("mimic") /\ \E b \in 0..MaxBoost : MeanReachedAt(b)) =>
        SumSeq(sizes) * target_mean[2] * 100 >= target_mean[1] * Len(sizes) * 99

\* C8: the mimic calibration makes at most five boosted evaluations, a pass
\* of its loop is pending only while fewer than five were made, and what it
\* returns is the size array of its last evaluation, one size per seed, also
\* when the target is out of reach.
C8_MimicBoundedAndReturnsLastEvaluation ==
    /\ n_evals <= 5
    /\ mimic_iter <= 5
    /\ call_pc = "mimic_loop" => mimic_iter < 5
    /\ Returned("mimic") => sizes = last_eval /\ Len(sizes) = Len(seeds)

\* the mimic has returned after five evaluations with the target still not met
C8_Witness ==
    /\ Returned("mimic")
    /\ n_evals = 5
    /\ MeanLess(sizes, target_mean)

----------------------------------------------------------------------------
(* monte_carlo of quantum_avalanche_v2 and _v3: per trial a fresh network, *)
(* then classical, quantum (+), quantum (-) (v3), mimic, each recorded.    *)
(* The network is create_network(N=N_nodes, seed=run) with the k of the    *)
(* signature, so N_nodes below k ends the driver and N_nodes = k gives the *)
(* complete graph; larger N_nodes are outside the bounds.  Every draw of a *)
(* trial is made right after np.random.seed with a seed derived from the   *)
(* trial index, so a trial is a fixed function of (run, N_nodes and the    *)
(* other arguments of monte_carlo).                                        *)
(***************************************************************************)

\* collapse_to_avalanches(seq) of quantum_avalanche_v3, as a function
RECURSIVE CollapseLoop(_, _, _)
CollapseLoop(seq, r, aval) ==
    IF seq = <<>>
    THEN IF r > 0 THEN Append(aval, r) ELSE aval
    ELSE IF Head(seq) > 0
         THEN CollapseLoop(Tail(seq), r + Head(seq), aval)
         ELSE IF r > 0
              THEN CollapseLoop(Tail(seq), 0, Append(aval, r))
              ELSE CollapseLoop(Tail(seq), r, aval)

CollapseToAvalanches(seq) == CollapseLoop(seq, 0, <<>>)

\* the mean a driver appends to results[cond]['means'] for the sizes sz.
\* v2: np.mean(sizes).  v3: np.mean(aval) if aval.size else 0, with
\* aval = collapse_to_avalanches(sizes)
RecordedMean(sz) ==
    IF version = "v2"
    THEN MeanOf(sz)
    ELSE LET aval == CollapseToAvalanches(sz)
         IN IF aval = <<>> THEN <<0, 1>> ELSE MeanOf(aval)

\* target_mean = np.mean(sizes_qp) if sizes_qp.size else 0
TargetFrom(sz) == IF sz = <<>> THEN <<0, 1>> ELSE MeanOf(sz)

\* equality of two means kept as <<sum, count>>
MeanEq(a, b) == a[1] * b[2] = b[1] * a[2]

\* results[cond]['means'].append(mu)
Recorded(cond, mu) == [results EXCEPT ![cond] = Append(@, mu)]

\* base_bias_fraction of monte_carlo, in tenths: the 0.1 of the signature,
\* 0.5 and 1.0.  bias_frac = or_bias_fraction(N_tubulins, base_bias_fraction)
\* is base_bias_fraction itself for the N_tubulins=1e10 of the signature
McFractions == {1, 5, 10}

\* the seed monte_carlo passes to the mimic: run + 20000 in
\* quantum_avalanche_v2, run + 30000 in quantum_avalanche_v3
MimicSeedOffset(ver) == IF ver = "v2" THEN 20000 ELSE 30000

\* k of create_network where the caller passes none: k=8 in
\* quantum_avalanche_v2, k=10 in quantum_avalanche_v3
DefaultK(ver) == IF ver = "v2" THEN 8 ELSE 10

RECURSIVE Combinations(_, _)
\* itertools.combinations(range(n), 2) from the pairs of u on, in its order
Combinations(u, n) ==
    IF u >= n - 1 THEN <<>>
    ELSE [i \in 1..(n - 1 - u) |-> <<u, u + i>>] \o Combinations(u + 1, n)

\* nx.complete_graph(n): G.add_edges_from(itertools.combinations(nodes, 2))
CompleteAdjacency(n) == AdjacencyAdded(Combinations(0, n), n)

\* N_nodes of monte_carlo: fewer nodes than k, or as many
McSizes(ver) == {McNodes, DefaultK(ver)}

\* the weights of create_network(N, seed=sd) on E edges: np.random.seed(sd),
\* then one np.random.normal per edge of G.edges(), in that order
SeededWeights(sd, E) == [i \in 1..E |-> Hundredths(Normal(Advanced(<<sd, 0>>, i - 1)))]

\* G = create_network(N=N_nodes, seed=run), at the top of a trial, with the
\* k and p=0.1 of create_network's signature.  nx.watts_strogatz_graph(n, k, p):
\*   if k > n: raise nx.NetworkXError("k>n, choose smaller k or larger n")
\*   if k == n: return nx.complete_graph(n)
\* When it raises, monte_carlo ends there with no trial recorded.
McCreateNetwork ==
    /\ mc_pc = "create"
    /\ IF DefaultK(version) > N_nodes
       THEN /\ mc_pc' = "raised"
            /\ UNCHANGED netVars
       ELSE /\ nodes' = 0..(N_nodes - 1)
            /\ adj' = CompleteAdjacency(N_nodes)
            /\ edge_list' = EdgesOf(CompleteAdjacency(N_nodes), N_nodes)
            /\ original_weight' = SeededWeights(run, Len(EdgesOf(CompleteAdjacency(N_nodes), N_nodes)))
            /\ weight' = SeededWeights(run, Len(EdgesOf(CompleteAdjacency(N_nodes), N_nodes)))
            /\ mc_pc' = "classical"
    /\ UNCHANGED <<N_nodes, base_bias_fraction, run, results, sizes_qp, callVars, bfsVars, extVars, stepVars, otherVars>>

\* sizes_c = run_classical(...); the mean is recorded
McClassical ==
    /\ mc_pc = "classical"
    /\ RunClassicalBody(run)
    /\ results' = Recorded("classical", RecordedMean(sizes'))
    /\ mc_pc' = "quantum_pos"
    /\ UNCHANGED <<N_nodes, base_bias_fraction, run, sizes_qp>>

\* sizes_qp = run_quantum_positive(...) (run_quantum in v2); recorded
McQuantumPositive ==
    /\ mc_pc = "quantum_pos"
    /\ RunQuantumBody("quantum_positive", QuantumStrength, {base_bias_fraction}, run + 10000)
    /\ sizes_qp' = sizes'
    /\ results' = Recorded("quantum_pos", RecordedMean(sizes'))
    /\ mc_pc' = IF version = "v3" THEN "quantum_neg" ELSE "mimic"
    /\ UNCHANGED <<N_nodes, base_bias_fraction, run>>

\* sizes_qn = run_quantum_negative(...); recorded
McQuantumNegative ==
    /\ mc_pc = "quantum_neg"
    /\ RunQuantumBody("quantum_negative", -QuantumStrength, {base_bias_fraction}, run + 20000)
    /\ results' = Recorded("quantum_neg", RecordedMean(sizes'))
    /\ mc_pc' = "mimic"
    /\ UNCHANGED <<N_nodes, base_bias_fraction, run, sizes_qp>>

\* target_mean = np.mean(sizes_qp); the call of run_mimic / run_classical_mimic
McMimicStart ==
    /\ mc_pc = "mimic"
    /\ MimicStartBody(TargetFrom(sizes_qp), run + MimicSeedOffset(version))
    /\ mc_pc' = "mimic_run"
    /\ UNCHANGED <<N_nodes, base_bias_fraction, run, results, sizes_qp>>

\* the mimic has returned sizes_m; recorded, and the trial is over
McMimicRecord ==
    /\ mc_pc = "mimic_run"
    /\ call_pc = "idle"
    /\ results' = Recorded("mimic", RecordedMean(sizes))
    /\ run' = run + 1
    /\ mc_pc' = IF run + 1 < MaxRuns THEN "create" ELSE "done"
    /\ UNCHANGED <<N_nodes, base_bias_fraction, sizes_qp, netVars, callVars,
                   bfsVars, extVars, stepVars, otherVars>>

InitMC ==
    /\ BfsIdle
    /\ ExtIdle
    /\ StepOff
    /\ OthersOff
    /\ NoNetwork
    /\ CallReady
    /\ N_nodes \in McSizes(version)
    /\ base_bias_fraction \in McFractions
    /\ mc_pc = "create"
    /\ run = 0
    /\ results = [classical |-> <<>>, quantum_pos |-> <<>>, quantum_neg |-> <<>>, mimic |-> <<>>]
    /\ sizes_qp = <<>>

NextMC ==
    \/ McCreateNetwork
    \/ McClassical
    \/ McQuantumPositive
    \/ McQuantumNegative
    \/ McMimicStart
    \/ MimicEval
    \/ MimicReturn
    \/ McMimicRecord

SpecMC == InitMC /\ [][NextMC]_vars

\* C6: in every trial the mimic runs after that trial's quantum (+) condition
\* was run and recorded, and the target mean it calibrates to equals the mean
\* recorded for quantum (+) in that same trial.
C6_MimicTargetIsRecordedQuantumPositiveMean ==
    mc_pc = "mimic_run" =>
        /\ Len(results.quantum_pos) = run + 1
        /\ Len(results.mimic) = run
        /\ MeanEq(target_mean, results.quantum_pos[run + 1])

----------------------------------------------------------------------------
(* The stepped simulations: simulate_time_bins (quantum_avalanche_v3) and  *)
(* simulate_epochs (quantum_avalanche_epochs).  Probabilities are in units *)
(* of 0.01.  step_bias is the signed amount added to the firing            *)
(* probability of the bias nodes: bias_strength in simulate_time_bins;     *)
(* +bias_strength, -bias_strength or nothing for bias_mode 'positive',     *)
(* 'negative', 'none' in the effect phase of simulate_epochs.              *)
(***************************************************************************)

\* base_threshold=1.03, the default of simulate_time_bins
StepThreshold == 103

\* base_threshold=1.3, the default of simulate_epochs and what its caller passes
EpochThreshold == 130

\* faulty variant: clipped at 1 only
ClipAboveOnly(x) == IF x > 100 THEN 100 ELSE x

\* np.clip(x, 0, 1)
Clip(x) == IF x < 0 THEN 0 ELSE IF x > 100 THEN 100 ELSE x

\* prob = np.full(N, prob_fire); prob[bias_nodes] = np.clip(prob[bias_nodes] + b, 0, 1)
Prob(v, b) == IF v \in bias_nodes /\ b # 0 THEN Clip(prob_fire + b) ELSE prob_fire

\* spontaneous = np.random.rand(N) < prob: rand is in [0, 1), so a node of
\* probability 0 never fires, one of probability 1 always does
SpontaneousDraws(b) ==
    {S \in SUBSET nodes :
        \A v \in nodes : ((Prob(v, b) <= 0) => (v \notin S)) /\ ((Prob(v, b) >= 100) => (v \in S))}

\* faulty variant: a neighbour that fired reaches a node over any edge
NeighborHitOverAnyEdge ==
    {v \in nodes : \E i \in IncidentEdges(v) : OtherEnd(i, v) \in last_active_mask}

\* neighbor_hit: a neighbour fired in the last bin over an edge of weight > base_threshold
NeighborHit ==
    {v \in nodes : \E i \in IncidentEdges(v) :
        OtherEnd(i, v) \in last_active_mask /\ Propagates(weight[i], base_threshold)}

\* faulty variant: the refractory mask is not applied
ActiveMaskNoRefractory(spontaneous) == spontaneous \cup NeighborHit

\* active_mask = spontaneous | neighbor_hit
\* if refractory: active_mask = active_mask & (~last_active_mask)
ActiveMask(spontaneous) ==
    IF refractory
    THEN (spontaneous \cup NeighborHit) \ last_active_mask
    ELSE spontaneous \cup NeighborHit

\* the body of one bin, with b added to the bias nodes' probability
StepBin(b) ==
    \E spontaneous \in SpontaneousDraws(b) :
        /\ prob' = [v \in nodes |-> Prob(v, b)]
        /\ active_counts' = Append(active_counts, Cardinality(ActiveMask(spontaneous)))
        /\ last_active_mask' = ActiveMask(spontaneous)
        /\ last_spontaneous' = spontaneous

\* one pass of `for t in range(n_bins)` of simulate_time_bins
TimeBinStep ==
    /\ sim = "time_bins"
    /\ step_pc = "bins"
    /\ StepBin(step_bias)
    /\ t_bin' = t_bin + 1
    /\ step_pc' = IF t_bin + 1 < shape.n_bins THEN "bins" ELSE "done"
    /\ UNCHANGED <<sim, refractory, step_bias, prob_fire, base_threshold, bias_nodes, shape, epoch, phase_tags,
                   track_entropy, epoch_tags, time_tags,
                   netVars, bfsVars, extVars, callVars, mcVars, otherVars>>

\* if track_entropy: entropy_trajectory['phase'].append(phase), ['epoch'].append(epoch),
\* ['time_in_epoch'].append(tie)
Tagged(phase, tie) ==
    IF track_entropy
    THEN /\ phase_tags' = Append(phase_tags, phase)
         /\ epoch_tags' = Append(epoch_tags, epoch)
         /\ time_tags' = Append(time_tags, tie)
    ELSE UNCHANGED <<phase_tags, epoch_tags, time_tags>>

\* faulty variant: the effect phase counts its time from the start of the phase
EffectTimeFromPhaseStart == t_bin

\* entropy_trajectory['time_in_epoch'].append(coherence_bins + t)
EffectTimeInEpoch == shape.coherence_bins + t_bin

\* faulty variant: the bias pulse is left on during the coherent phase
CoherentBiasLeftOn == step_bias

\* the coherent phase adds nothing to prob_fire: prob = np.full(N, prob_fire)
CoherentBias == 0

\* one pass of `for t in range(coherence_bins)`: no bias
CoherentStep ==
    /\ sim = "epochs"
    /\ step_pc = "coherent"
    /\ StepBin(CoherentBias)
    /\ Tagged("coherent", t_bin)
    /\ IF t_bin + 1 < shape.coherence_bins
       THEN t_bin' = t_bin + 1 /\ step_pc' = "coherent"
       ELSE t_bin' = 0 /\ step_pc' = "effect"
    /\ UNCHANGED <<sim, refractory, step_bias, prob_fire, base_threshold, bias_nodes, shape, epoch,
                   track_entropy, netVars, bfsVars, extVars, callVars, mcVars, otherVars>>

\* one pass of `for t in range(effect_bins)`: the bias pulse
EffectStep ==
    /\ sim = "epochs"
    /\ step_pc = "effect"
    /\ StepBin(step_bias)
    /\ Tagged("effect", EffectTimeInEpoch)
    /\ IF t_bin + 1 < shape.effect_bins
       THEN t_bin' = t_bin + 1 /\ step_pc' = "effect" /\ epoch' = epoch
       ELSE /\ t_bin' = 0
            /\ epoch' = epoch + 1
            /\ step_pc' = IF epoch + 1 < shape.n_epochs THEN "coherent" ELSE "done"
    /\ UNCHANGED <<sim, refractory, step_bias, prob_fire, base_threshold, bias_nodes, shape,
                   track_entropy, netVars, bfsVars, extVars, callVars, mcVars, otherVars>>

\* the inputs offered to the stepped simulations: a weight at or below 1.03,
\* two above 1.03 and not above 1.3, one of them 1.3 itself, and one above 1.3
StepWeights == {100, 106, 130, 135}
StepThresholds == {StepThreshold, EpochThreshold}
StepProbs == {0, 2}
StepBiases == {-5, 0, 5, 100}
TimeBinShapes ==
    {[n_bins |-> n, n_epochs |-> 0, coherence_bins |-> 0, effect_bins |-> 0] : n \in {2, 3}}
EpochShapes ==
    {[n_bins |-> 0, n_epochs |-> 2, coherence_bins |-> 1, effect_bins |-> 1],
     [n_bins |-> 0, n_epochs |-> 1, coherence_bins |-> 2, effect_bins |-> 2]}

\* n_bias = max(1, int(bias_nodes_fraction * N)) hubs; in a ring every degree
\* is equal and the stable sort keeps node order, so the first n_bias nodes
HubNodes(N, f) == 0..(Max(1, (N * f) \div 10) - 1)

\* bias_nodes_fraction=0.1, in tenths
BiasNodesFraction == 1

InitStep ==
    /\ OthersOff
    /\ BfsIdle
    /\ ExtIdle
    /\ McOff
    /\ CallIdle
    /\ nodes = 0..(StepNodes - 1)
    /\ adj = RingAdjacency(StepNodes)
    /\ edge_list = RingEdges(StepNodes)
    /\ weight \in [1..Len(RingEdges(StepNodes)) -> StepWeights]
    /\ original_weight = weight
    /\ sim \in {"time_bins", "epochs"}
    /\ refractory \in BOOLEAN
    /\ prob_fire \in StepProbs
    /\ base_threshold \in StepThresholds
    /\ step_bias \in StepBiases
    /\ bias_nodes = IF sim = "time_bins" /\ step_bias = 0
                    THEN {} ELSE HubNodes(StepNodes, BiasNodesFraction)
    /\ shape \in IF sim = "time_bins" THEN TimeBinShapes ELSE EpochShapes
    /\ step_pc = IF sim = "time_bins" THEN "bins" ELSE "coherent"
    /\ epoch = 0
    /\ t_bin = 0
    /\ last_active_mask = {}
    /\ last_spontaneous = {}
    /\ active_counts = <<>>
    /\ phase_tags = <<>>
    /\ prob = <<>>
    /\ epoch_tags = <<>>
    /\ time_tags = <<>>
    /\ track_entropy \in IF sim = "epochs" THEN BOOLEAN ELSE {FALSE}

NextStep ==
    \/ TimeBinStep
    \/ CoherentStep
    \/ EffectStep

SpecStep == InitStep /\ [][NextStep]_vars

\* a bin of the stepped simulation was just simulated
BinSimulated == Len(active_counts') = Len(active_counts) + 1

\* C10: with refractory mode on, no node is active in two consecutive bins:
\* every simulated bin's mask is disjoint from the mask of the bin before it,
\* within a phase, from the coherent phase into the effect phase, and from the
\* end of one epoch into the start of the next.
C10_RefractoryNoConsecutiveFiring ==
    [][(refractory /\ BinSimulated) => last_active_mask' \cap last_active_mask = {}]_vars

\* with refractory mode on, some node fired in the last coherent bin of the
\* first epoch and some node in the effect bin after it, and again in the
\* last effect bin of the first epoch and the first coherent bin of the second
C10_Witness ==
    /\ sim = "epochs"
    /\ refractory
    /\ Len(phase_tags) >= 3
    /\ phase_tags[1] = "coherent" /\ active_counts[1] > 0
    /\ phase_tags[2] = "effect" /\ active_counts[2] > 0
    /\ phase_tags[3] = "coherent" /\ active_counts[3] > 0
    /\ epoch = 1

\* the index, from 0, of the bin simulated last, and its place in its epoch
LastBin == Len(active_counts) - 1
EpochLength == shape.coherence_bins + shape.effect_bins
LastTimeInEpoch == LastBin % EpochLength

\* C11: in simulate_epochs the bias acts only inside effect windows.  At a
\* bin of a coherent window, in every epoch, every node fires spontaneously
\* with prob_fire; at a bin of an effect window the bias nodes use the clipped
\* biased probability and every other node prob_fire; with no bias every bin
\* uses prob_fire for every node.
C11_BiasOnlyInEffectWindows ==
    (sim = "epochs" /\ active_counts # <<>>) =>
        \A v \in nodes :
            prob[v] = IF LastTimeInEpoch >= shape.coherence_bins /\ v \in bias_nodes
                      THEN Clip(prob_fire + step_bias)
                      ELSE prob_fire

\* a biased run has just simulated the coherent bin that opens its second
\* epoch, right after an effect bin, and a bias node is back at prob_fire
C11_Witness ==
    /\ sim = "epochs"
    /\ step_bias # 0
    /\ epoch = 1
    /\ LastBin = EpochLength
    /\ shape.coherence_bins = 1
    /\ \E v \in bias_nodes : prob[v] = prob_fire /\ Clip(prob_fire + step_bias) # prob_fire

\* the tags of bin i, counted from 0, as its place in the trace prescribes
TagsAsPlaced(i) ==
    /\ epoch_tags[i + 1] = i \div EpochLength
    /\ time_tags[i + 1] = i % EpochLength
    /\ phase_tags[i + 1] = IF i % EpochLength < shape.coherence_bins THEN "coherent" ELSE "effect"

\* the counts returned: n_bins of them by simulate_time_bins,
\* n_epochs * (coherence_bins + effect_bins) by simulate_epochs
TraceLengthAsConfigured ==
    /\ (sim = "time_bins" /\ step_pc = "done") => Len(active_counts) = shape.n_bins
    /\ (sim = "epochs" /\ step_pc = "done") => Len(active_counts) = shape.n_epochs * EpochLength

\* every bin of the returned trace of simulate_epochs carries its tags
AllBinsTagged ==
    /\ Len(phase_tags) = Len(active_counts)
    /\ Len(epoch_tags) = Len(active_counts)
    /\ Len(time_tags) = Len(active_counts)
    /\ \A i \in 0..(Len(active_counts) - 1) : TagsAsPlaced(i)

\* C12 as stated: the returned trace has the configured length and every bin
\* of simulate_epochs is tagged with its epoch, time in epoch and phase.
C12_TraceLengthAndTagsAlways ==
    /\ TraceLengthAsConfigured
    /\ (sim = "epochs" /\ step_pc = "done") => AllBinsTagged

\* C12, amended: the returned trace has the configured length, and when
\* track_entropy is on every bin of simulate_epochs is tagged with epoch
\* i div (coherence_bins + effect_bins), time_in_epoch i mod the same, and
\* phase coherent below coherence_bins and effect from there on.
C12_TraceLengthAndTags ==
    /\ TraceLengthAsConfigured
    /\ (sim = "epochs" /\ step_pc = "done" /\ track_entropy) => AllBinsTagged

\* a tracked run of two epochs has returned, its last bin tagged effect in epoch 1
C12_Witness ==
    /\ sim = "epochs"
    /\ step_pc = "done"
    /\ track_entropy
    /\ shape.n_epochs = 2
    /\ Len(active_counts) = 4
    /\ epoch_tags[4] = 1 /\ phase_tags[4] = "effect" /\ time_tags[4] = 1

----------------------------------------------------------------------------
(* The drivers that call a stepped simulation once per condition:          *)
(* monte_carlo_timebins (quantum_avalanche_v3) and compare_conditions      *)
(* (quantum_avalanche_epochs).  Each call of simulate_time_bins /          *)
(* simulate_epochs seeds the generator with its seed argument and builds   *)
(* its own network from it; trial_seeds and trial_nets list the seed and   *)
(* the network of every call made so far in the current trial.             *)
(***************************************************************************)

\* the conditions in the order the driver runs them
TimebinConds == <<"classical", "quantum_pos", "quantum_neg", "mimic">>
CompareConds == <<"positive", "negative", "none">>
DriveConds == IF driver = "timebins" THEN TimebinConds ELSE CompareConds

\* hash(cond) % 1000: Python salts str hashes per process
HashValues == {0, 1}

\* seed_offset=0
SeedOffsets == {0}

\* the seed handed to the k-th condition's simulation in trial r.
\* monte_carlo_timebins: run + seed_offset [+ 10000, + 20000, + 30000]
\* compare_conditions:   run * 1000 + hash(cond) % 1000
CondSeed(r, k) ==
    IF driver = "timebins"
    THEN r + (k - 1) * 10000
    ELSE r * 1000 + hash_of[CompareConds[k]]

\* the networks a simulation call may build on its two-node ring (the weight
\* of the one edge), and the count traces it may return
DriveNetworks == {<<100>>, <<106>>}
DriveTraces == {<<0, 0, 0>>, <<1, 0, 2>>}

\* the generator is seeded with the seed argument, so a call with the seed of
\* an earlier call builds the same network; other seeds give any network
NetworksOfSeed(sd) ==
    {net \in DriveNetworks : \A j \in 1..Len(trial_seeds) : trial_seeds[j] = sd => trial_nets[j] = net}

\* n^3 times the third central moment of aval: zero exactly when
\* stats.skew(aval) is zero, and of its sign
ThirdMoment(aval) ==
    LET n == Len(aval)
        S == SumSeq(aval)
    IN SumSeq([i \in 1..n |-> (n * aval[i] - S) * (n * aval[i] - S) * (n * aval[i] - S)])

\* np.std(aval) > 0
StdPositive(aval) == \E i, j \in 1..Len(aval) : aval[i] # aval[j]

\* the statistics recorded for the avalanches of one condition of one trial.
\* monte_carlo_timebins:
\*   results[cond]['means'].append(np.mean(aval) if aval.size else 0)
\*   results[cond]['skews'].append(stats.skew(aval) if aval.size and np.std(aval) > 0 else 0)
\* compare_conditions: 'mean': avalanches.mean() if len(avalanches) > 0 else 0
TrialEntry(aval) ==
    IF driver = "timebins"
    THEN [mean |-> IF aval = <<>> THEN <<0, 1>> ELSE MeanOf(aval),
          skew |-> IF aval # <<>> /\ StdPositive(aval) THEN ThirdMoment(aval) ELSE 0]
    ELSE [mean |-> IF aval = <<>> THEN <<0, 1>> ELSE MeanOf(aval)]

\* faulty variant: a trial without avalanches is skipped
EntriesAfterSkippingEmpty(entries, aval) ==
    IF aval = <<>> THEN entries ELSE Append(entries, TrialEntry(aval))

\* results[cond][...].append(...): unconditional
EntriesAfter(entries, aval) == Append(entries, TrialEntry(aval))

\* monte_carlo_timebins, top of a trial: np.random.seed(run + seed_offset);
\* bias_nodes = np.random.choice(N_nodes, size=max(1, int(bias_fraction * N_nodes)), replace=False)
DriveSelectBiasNodes ==
    /\ driver = "timebins"
    /\ drive_pc = "select"
    /\ drive_bias_nodes' \in {{0}, {1}}
    /\ drive_pc' = "cond"
    /\ drive_cond' = 1
    /\ UNCHANGED <<driver, drive_run, hash_of, trial_seeds, trial_nets, drive_results, drive_counts,
                   netVars, bfsVars, extVars, callVars, mcVars, stepVars, reproVars, buildVars, ringVars, tailVars>>

\* one condition of a trial: the simulation is called with the condition's
\* seed, its counts are collapsed into avalanches and the entry is recorded;
\* after the last condition the next trial starts
DriveCondition ==
    /\ driver \in {"timebins", "compare"}
    /\ drive_pc = "cond"
    /\ LET c == DriveConds[drive_cond]
           sd == CondSeed(drive_run, drive_cond)
           last == drive_cond = Len(DriveConds)
       IN /\ \E net \in NetworksOfSeed(sd) :
                 /\ trial_seeds' = IF last THEN <<>> ELSE Append(trial_seeds, sd)
                 /\ trial_nets' = IF last THEN <<>> ELSE Append(trial_nets, net)
          /\ \E counts \in DriveTraces :
                 /\ drive_counts' = counts
                 /\ drive_results' = [drive_results EXCEPT
                                         ![c] = EntriesAfter(@, CollapseToAvalanches(counts))]
          /\ drive_cond' = IF last THEN 1 ELSE drive_cond + 1
          /\ drive_run' = IF last THEN drive_run + 1 ELSE drive_run
          /\ drive_pc' = IF ~last THEN "cond"
                         ELSE IF drive_run + 1 >= DriveRuns THEN "done"
                         ELSE IF driver = "timebins" THEN "select" ELSE "cond"
    /\ UNCHANGED <<driver, hash_of, drive_bias_nodes,
                   netVars, bfsVars, extVars, callVars, mcVars, stepVars, reproVars, buildVars, ringVars, tailVars>>

InitDrive ==
    /\ BfsIdle
    /\ ExtIdle
    /\ NoNetwork
    /\ CallIdle
    /\ McOff
    /\ StepOff
    /\ ReproOff
    /\ BuildOff
    /\ RingOff
    /\ TailOff
    /\ driver \in {"timebins", "compare"}
    /\ hash_of \in IF driver = "compare"
                   THEN [{CompareConds[k] : k \in 1..Len(CompareConds)} -> HashValues]
                   ELSE {<<>>}
    /\ drive_pc = IF driver = "timebins" THEN "select" ELSE "cond"
    /\ drive_run = 0
    /\ drive_cond = 1
    /\ drive_bias_nodes = {}
    /\ trial_seeds = <<>>
    /\ trial_nets = <<>>
    /\ drive_results = [c \in {DriveConds[k] : k \in 1..Len(DriveConds)} |-> <<>>]
    /\ drive_counts = <<>>

NextDrive ==
    \/ DriveSelectBiasNodes
    \/ DriveCondition

SpecDrive == InitDrive /\ [][NextDrive]_vars

\* C13: within one trial every condition is simulated on the same network,
\* built once for the trial: the networks of the calls made so far in the
\* current trial are all the same one.
C13_OneNetworkPerTrial ==
    \A i, j \in 1..Len(trial_nets) : trial_nets[i] = trial_nets[j]

\* the number of conditions recorded so far in the current trial, and the
\* condition recorded last
CondsRecorded == IF drive_pc = "cond" THEN drive_cond - 1 ELSE 0
LastRecorded ==
    IF CondsRecorded > 0 THEN DriveConds[CondsRecorded] ELSE DriveConds[Len(DriveConds)]

\* C14: every condition's result list holds one entry per trial, in trial
\* order: drive_run entries for the finished trials plus one once the
\* condition has run in the current trial, so n_runs entries when the driver
\* is done; and a trace that yields no avalanche is recorded as an entry of
\* mean 0 (and skew 0 where a skew is recorded), not skipped.
C14_OneEntryPerTrial ==
    /\ \A k \in 1..Len(DriveConds) :
          Len(drive_results[DriveConds[k]]) = drive_run + (IF k <= CondsRecorded THEN 1 ELSE 0)
    /\ drive_pc = "done" =>
          \A k \in 1..Len(DriveConds) : Len(drive_results[DriveConds[k]]) = DriveRuns
    /\ (drive_counts # <<>> /\ CollapseToAvalanches(drive_counts) = <<>>) =>
          LET entries == drive_results[LastRecorded]
          IN entries[Len(entries)] = IF driver = "timebins"
                                     THEN [mean |-> <<0, 1>>, skew |-> 0]
                                     ELSE [mean |-> <<0, 1>>]

\* the driver is done and the last trial's last condition had a silent trace
C14_Witness ==
    /\ drive_pc = "done"
    /\ drive_run = DriveRuns
    /\ CollapseToAvalanches(drive_counts) = <<>>
    /\ \E k \in 1..Len(DriveConds) : drive_results[DriveConds[k]][1].mean # <<0, 1>>

----------------------------------------------------------------------------
(* Reproducibility.  A program is executed in one process and then again   *)
(* in a new one.  The generator is not computed: a result is represented   *)
(* by the state of np.random it is drawn in.  That state is                *)
(* <<"seeded", seed, calls>>, the seed given last and the number of calls  *)
(* that drew from the generator since, or <<"entropy", process>> while the *)
(* process has not seeded it.  Two results are the same exactly when they  *)
(* are drawn in the same state.                                            *)
(* program "compare": compare_conditions (quantum_avalanche_epochs), its   *)
(* (trial, condition) cells run in any order; program "biased":            *)
(* create_brain_network, run_classical_simulation and                      *)
(* run_quantum_biased_simulation (avalanche_bias_sim), called in any       *)
(* order, the graph being the one create_brain_network returns (the same   *)
(* on every call: both of its generators are seeded with 42).              *)
(***************************************************************************)

\* edges of the graph the programs run on
ReproEdges == 3
\* n_epochs * (coherence_bins + effect_bins) of simulate_epochs
ReproBins == 2

Processes == {1, 2}

ReproKeys ==
    IF program = "compare"
    THEN (0..(ReproRuns - 1)) \X {CompareConds[k] : k \in 1..Len(CompareConds)}
    ELSE {<<0, "classical">>, <<0, "quantum">>}

\* the salted str hashes of a process
Salts == [{CompareConds[k] : k \in 1..Len(CompareConds)} -> HashValues]

\* np.random.seed(seed)
Seeded(sd) == <<"seeded", sd, 0>>

\* the state after n more calls that draw from np.random
Drawn(st, n) == IF st[1] = "seeded" THEN <<st[1], st[2], st[3] + n>> ELSE st

\* the result of key is observed in the running process
Observed(key, res) ==
    repro_results' = [repro_results EXCEPT ![proc][key] = @ \cup {res}]

\* compare_conditions, one cell: simulate_epochs(bias_mode=cond,
\* seed=run * 1000 + hash(cond) % 1000); simulate_epochs seeds np.random with it
ReproCompareCell ==
    /\ program = "compare"
    /\ \E r \in 0..(ReproRuns - 1), k \in 1..Len(CompareConds) :
          LET c == CompareConds[k]
              sd == r * 1000 + salt[c]
          IN /\ Observed(<<r, c>>, <<Seeded(sd), c>>)
             /\ np_state' = Drawn(Seeded(sd), ReproEdges + ReproBins)
    /\ UNCHANGED <<program, proc, salt,
                   netVars, bfsVars, extVars, callVars, mcVars, stepVars, driveVars, buildVars, ringVars, tailVars>>

\* create_brain_network: np.random.seed(42), then one weight is drawn for
\* every edge
ReproCreateBrainNetwork ==
    /\ program = "biased"
    /\ np_state' = Drawn(Seeded(42), ReproEdges)
    /\ UNCHANGED <<program, proc, salt, repro_results,
                   netVars, bfsVars, extVars, callVars, mcVars, stepVars, driveVars, buildVars, ringVars, tailVars>>

\* run_classical_simulation: np.random.seed(42), then the seed nodes are drawn
ReproClassical ==
    /\ program = "biased"
    /\ Observed(<<0, "classical">>, <<Seeded(42)>>)
    /\ np_state' = Drawn(Seeded(42), 1)
    /\ UNCHANGED <<program, proc, salt,
                   netVars, bfsVars, extVars, callVars, mcVars, stepVars, driveVars, buildVars, ringVars, tailVars>>

\* bias_indices = np.random.choice(...) is drawn from np.random as it stands
BiasDrawSource == np_state

\* run_quantum_biased_simulation: the bias edges are drawn without seeding,
\* then np.random.seed(43) and the seed nodes are drawn
ReproQuantumBiased ==
    /\ program = "biased"
    /\ Observed(<<0, "quantum">>, <<BiasDrawSource, Seeded(43)>>)
    /\ np_state' = Drawn(Seeded(43), 1)
    /\ UNCHANGED <<program, proc, salt,
                   netVars, bfsVars, extVars, callVars, mcVars, stepVars, driveVars, buildVars, ringVars, tailVars>>

\* the program is run again in a new process: np.random starts from fresh
\* entropy and str hashes get a new salt
ReproNewProcess ==
    /\ proc = 1
    /\ proc' = 2
    /\ np_state' = <<"entropy", 2>>
    /\ salt' \in IF program = "compare" THEN Salts ELSE {<<>>}
    /\ UNCHANGED <<program, repro_results,
                   netVars, bfsVars, extVars, callVars, mcVars, stepVars, driveVars, buildVars, ringVars, tailVars>>

InitRepro ==
    /\ BfsIdle
    /\ ExtIdle
    /\ NoNetwork
    /\ CallIdle
    /\ McOff
    /\ StepOff
    /\ DriveOff
    /\ BuildOff
    /\ RingOff
    /\ TailOff
    /\ program \in {"compare", "biased"}
    /\ proc = 1
    /\ np_state = <<"entropy", 1>>
    /\ salt \in IF program = "compare" THEN Salts ELSE {<<>>}
    /\ repro_results = [p \in Processes |-> [key \in ReproKeys |-> {}]]

NextRepro ==
    \/ ReproCompareCell
    \/ ReproCreateBrainNetwork
    \/ ReproClassical
    \/ ReproQuantumBiased
    \/ ReproNewProcess

SpecRepro == InitRepro /\ [][NextRepro]_vars

\* C15: the result recorded for a (trial, condition) pair depends only on
\* the configuration, the trial index and the condition: every execution of
\* the pair, in either process and at any place in the order, gives the same
\* result.
C15_ResultsReproducible ==
    \A key \in ReproKeys :
        Cardinality(UNION {repro_results[p][key] : p \in Processes}) <= 1

----------------------------------------------------------------------------
(* The network constructors create_network (quantum_avalanche_v3),         *)
(* create_critical_network (integrated_quantum_avalanche_sim) and          *)
(* create_network (unified_quantum_test), called repeatedly in one process *)
(* with other draws from np.random in between.  rng is the state of        *)
(* np.random, <<seed, number of calls of np.random.normal since seeding>>. *)
(* A weight is kept here as the deviate itself, in units of 0.000001.      *)
(* jax_drawn holds what the jax generator has given so far, per subkey:    *)
(* a subkey is the m-th one split off jr.PRNGKey(42), and jr.uniform and   *)
(* jr.randint are functions of the subkey whose values are fixed by the    *)
(* installed jax, not by the scripts; a value is chosen when it is first   *)
(* asked for and is the same whenever the same subkey is asked again.      *)
(***************************************************************************)

\* seed=None
NoSeed == 0 - 1

BuildSeeds == {1, 2}
Constructors == {"create_network", "create_critical_network", "unified_create_network"}

\* rewire_prob p, in hundredths
BuildProbs == {0, 10, 30}

\* (N, k) offered to create_network and create_critical_network: rings, a
\* lattice of degree 4, k = N and k > N
BuildShapes == {<<3, 2>>, <<4, 2>>, <<6, 4>>, <<4, 4>>, <<3, 4>>}

\* the calls <<<<N, k>>, p, seed>> offered: every shape and p under a seed,
\* and with seed=None the rings with p = 0 and p = 0.1
BuildInputs ==
    (BuildShapes \X BuildProbs \X BuildSeeds)
        \cup ({<<3, 2>>, <<4, 2>>} \X {0, 10} \X {NoSeed})

\* n_nodes offered to create_network of unified_quantum_test, with k = 2
UnifiedSizes == {3}

\* p offered to create_network of unified_quantum_test, in hundredths
UnifiedProbs == {0, 30}

\* jr.uniform(subkey), in hundredths: a value below 0.30 and one above
JaxUniforms == {20, 65}

\* random.Random(sd), the generator nx.watts_strogatz_graph draws from when
\* it is given a seed: genrand_uint32() >> 29 of the first words of the
\* Mersenne Twister seeded with sd
MtBits(sd) ==
    IF sd = 1
    THEN <<1, 4, 6, 6, 6, 0, 2, 0, 3, 6, 3, 3, 5, 3, 6, 1, 0, 3, 0, 7, 6, 3, 3, 4, 6, 6, 0, 5, 3, 2, 5, 6,
           1, 4, 7, 0, 7, 2, 0, 0, 0, 5, 4, 0, 7, 7, 3, 5, 1, 7, 3, 5, 0, 4, 1, 6, 3, 7, 3, 4, 1, 2, 1, 5>>
    ELSE <<7, 6, 7, 6, 0, 0, 0, 2, 6, 1, 5, 6, 5, 6, 2, 2, 4, 1, 4, 0, 4, 5, 1, 7, 3, 5, 3, 6, 5, 6, 7, 4,
           7, 2, 4, 7, 3, 4, 2, 7, 0, 6, 0, 2, 3, 7, 2, 7, 3, 3, 7, 7, 4, 1, 4, 1, 1, 1, 0, 1, 2, 1, 1, 4>>

\* floor(100 * random()) of the same generator when random() is called at
\* word i - 1; random() takes two words
MtRandom(sd) ==
    IF sd = 1
    THEN <<13, 56, 84, 80, 76, 6, 25, 11, 49, 76, 44, 47, 65, 37, 78, 20,
           9, 48, 2, 89, 83, 38, 43, 60, 76, 76, 0, 69, 44, 26, 72, 80,
           22, 59, 94, 10, 90, 31, 3, 2, 2, 64, 54, 0, 93, 88, 38, 68,
           21, 96, 42, 72, 2, 52, 22, 76, 43, 93, 49, 55, 23, 34, 23, 67>>
    ELSE <<95, 86, 94, 84, 5, 9, 8, 36, 83, 16, 73, 80, 66, 85, 30, 25,
           60, 21, 60, 3, 58, 68, 15, 99, 43, 63, 39, 80, 72, 86, 99, 50,
           94, 37, 54, 93, 44, 50, 26, 90, 3, 87, 2, 36, 46, 93, 31, 90,
           38, 42, 89, 88, 52, 16, 56, 17, 23, 23, 2, 17, 32, 17, 13, 51>>

RECURSIVE BitLength(_)
\* n.bit_length()
BitLength(n) == IF n = 0 THEN 0 ELSE 1 + BitLength(n \div 2)

\* getrandbits(k) at word pos, k <= 3: the top k bits of the word
GetRandBits(sd, pos, k) == MtBits(sd)[pos + 1] \div (2 ^ (3 - k))

RECURSIVE RandBelow(_, _, _)
\* _randbelow(n) from word pos on: r = getrandbits(k); while r >= n: r =
\* getrandbits(k).  <<the value, the word position after the call>>
RandBelow(sd, pos, n) ==
    LET r == GetRandBits(sd, pos, BitLength(n))
    IN IF r < n THEN <<r, pos + 1>> ELSE RandBelow(sd, pos + 1, n)

\* G.has_edge(u, w) and G.degree(u) of the graph with the adjacency a
HasEdge(a, u, w) == \E j \in 1..Len(a[u]) : a[u][j] = w
Degree(a, u) == Len(a[u])

\* G.remove_edge(u, v); G.add_edge(u, w): v leaves u's adjacency and u
\* leaves v's; w is put at the end of u's and u at the end of w's
Moved(a, u, v, w) ==
    LET cut == [x \in DOMAIN a |->
                   IF x = u THEN SelectSeq(a[x], LAMBDA y : y # v)
                   ELSE IF x = v THEN SelectSeq(a[x], LAMBDA y : y # u)
                   ELSE a[x]]
    IN [x \in DOMAIN a |->
           IF x = u THEN Append(cut[x], w)
           ELSE IF x = w THEN Append(cut[x], u)
           ELSE cut[x]]

RECURSIVE RewireLoop(_, _, _, _, _, _)
\* while w == u or G.has_edge(u, w): w = seed.choice(nodes);
\*     if G.degree(u) >= n - 1: break
\* else: G.remove_edge(u, v); G.add_edge(u, w)
\* from the test of the loop on, w being the node drawn last.
\* <<the adjacency, the word position>> after it
RewireLoop(sd, a, u, v, w, pos) ==
    LET n == Cardinality(DOMAIN a)
    IN IF w = u \/ HasEdge(a, u, w)
       THEN LET d == RandBelow(sd, pos, n)
            IN IF Degree(a, u) >= n - 1
               THEN <<a, d[2]>>
               ELSE RewireLoop(sd, a, u, v, d[1], d[2])
       ELSE <<Moved(a, u, v, w), pos>>

\* for j in range(1, k // 2 + 1):
\*     targets = nodes[j:] + nodes[0:j]
\*     ... zip(nodes, targets)
\* the pairs (u, (u + j) % n) in the order the loops give them
LatticeAdded(n, k) ==
    [e \in 1..(n * (k \div 2)) |-> <<(e - 1) % n, (((e - 1) % n) + ((e - 1) \div n) + 1) % n>>]

\* the adjacency after G.add_edges_from(zip(nodes, targets)) for every j
LatticeAdjacency(n, k) == AdjacencyAdded(LatticeAdded(n, k), n)

RECURSIVE Rewired(_, _, _, _, _, _)
\* the rewiring pass of watts_strogatz_graph(n, k, p, seed=sd) from the i-th
\* pair (u, v) of lat on: if seed.random() < p, a node w is drawn and the
\* edge is moved to (u, w) unless the loop gives up
Rewired(sd, a, lat, i, pos, p) ==
    IF i > Len(lat) THEN a
    ELSE IF MtRandom(sd)[pos + 1] < p
         THEN LET d == RandBelow(sd, pos + 2, Cardinality(DOMAIN a))
                  r == RewireLoop(sd, a, lat[i][1], lat[i][2], d[1], d[2])
              IN Rewired(sd, r[1], lat, i + 1, r[2], p)
         ELSE Rewired(sd, a, lat, i + 1, pos + 2, p)

RECURSIVE RewiredUnseeded(_, _, _, _)
\* the same pass with seed=None: the draws come from the global generator of
\* the random module, which nothing seeds, so each has any value.  An edge
\* stays when random() >= p, or when it is < p and u is joined to every
\* other node (the loop breaks); else it moves to any node that is neither
\* u nor a neighbour of u.  The set of adjacencies the pass can end in
RewiredUnseeded(a, lat, i, p) ==
    LET n == Cardinality(DOMAIN a)
        u == lat[i][1]
        v == lat[i][2]
        free == {w \in 0..(n - 1) : w # u /\ ~HasEdge(a, u, w)}
    IN IF i > Len(lat) THEN {a}
       ELSE (IF p < 100 \/ Degree(a, u) >= n - 1 THEN RewiredUnseeded(a, lat, i + 1, p) ELSE {})
            \cup (IF p > 0 /\ Degree(a, u) < n - 1
                  THEN UNION {RewiredUnseeded(Moved(a, u, v, w), lat, i + 1, p) : w \in free}
                  ELSE {})

\* nx.watts_strogatz_graph(n, k, p, seed=sd), k <= n: the adjacencies it can
\* return.  if k == n: return nx.complete_graph(n)
WattsStrogatz(n, k, p, sd) ==
    IF k = n
    THEN {CompleteAdjacency(n)}
    ELSE IF sd # NoSeed
         THEN {Rewired(sd, LatticeAdjacency(n, k), LatticeAdded(n, k), 1, 0, p)}
         ELSE RewiredUnseeded(LatticeAdjacency(n, k), LatticeAdded(n, k), 1, p)

\* faulty variant: the weights are drawn without reseeding
WeightSourceNotReseeded(sd) == rng

\* if seed is not None: np.random.seed(seed)
WeightSource(sd) == IF sd # NoSeed THEN <<sd, 0>> ELSE rng

\* what a call of a constructor is remembered by: its arguments, the state
\* np.random was in when it was entered, whether it raised, and the graph it
\* returned
Built(c, N, k, p, sd, raised, a, el, w) ==
    [ctor |-> c, N |-> N, k |-> k, p |-> p, seed |-> sd, entered |-> rng, raised |-> raised,
     adj |-> a, edges |-> el, weight |-> w, original_weight |-> w]

\* create_network / create_critical_network (N, k, p, seed):
\*   if seed is not None: np.random.seed(seed)
\*   G = nx.watts_strogatz_graph(N, k, p, seed=seed), which raises
\*       NetworkXError("k>n, choose smaller k or larger n") if k > n
\*   for u, v in G.edges(): weight = np.random.normal(1.0, 0.12);
\*                          original_weight = weight
BuildSeeded ==
    /\ Len(built) < BuildCalls
    /\ \E c \in {"create_network", "create_critical_network"}, arg \in BuildInputs :
          LET N == arg[1][1]
              k == arg[1][2]
              p == arg[2]
              sd == arg[3]
              st == WeightSource(sd)
          IN IF k > N
             THEN /\ built' = Append(built, Built(c, N, k, p, sd, TRUE, <<>>, <<>>, <<>>))
                  /\ rng' = st
             ELSE \E a \in WattsStrogatz(N, k, p, sd) :
                     LET el == EdgesOf(a, N)
                         w == [i \in 1..Len(el) |-> Normal(Advanced(st, i - 1))]
                     IN /\ built' = Append(built, Built(c, N, k, p, sd, FALSE, a, el, w))
                        /\ rng' = Advanced(st, Len(el))
    /\ UNCHANGED <<jax_drawn, netVars, bfsVars, extVars, callVars, mcVars, stepVars, driveVars, reproVars, ringVars, tailVars>>

\* for i in range(n_nodes): for j in range(1, k // 2 + 1):
\*     edges.append((i, (i + j) % n_nodes))
RingLatticeOf(n, k) ==
    LET h == k \div 2
    IN [e \in 1..(n * h) |-> <<(e - 1) \div h, (((e - 1) \div h) + ((e - 1) % h) + 1) % n>>]

\* pair in list
InList(pair, list) == \E i \in 1..Len(list) : list[i] = pair

\* what the jax generator gives for the m-th subkey, asked for as `kind` with
\* the bound n: the value in tbl when it was asked before, else any of range
JaxValues(tbl, m, kind, n, range) ==
    LET known == {e \in tbl : e[1] = m /\ e[2] = kind /\ e[3] = n}
    IN IF known # {} THEN {e[4] : e \in known} ELSE range

RECURSIVE UnifiedRewired(_, _, _, _, _, _, _)
\* the rewiring loop of create_network (unified_quantum_test) from the i-th
\* pair of `edges` on, `done` being the list `rewired` so far, m the number
\* of times key was split and tbl what the generator has given:
\*   key, subkey = jr.split(key)
\*   if jr.uniform(subkey) < p:
\*       key, subkey = jr.split(key)
\*       new_target = int(jr.randint(subkey, (), 0, n_nodes))
\*       if new_target != u and (u, new_target) not in rewired:
\*           rewired.append((u, new_target))
\*       else: rewired.append((u, v))
\*   else: rewired.append((u, v))
\* The set of <<rewired, tbl>> the loop can end with
UnifiedRewired(edges, i, done, p, n, m, tbl) ==
    IF i > Len(edges) THEN {<<done, tbl>>}
    ELSE LET u == edges[i][1]
             v == edges[i][2]
         IN UNION {
              LET t1 == tbl \cup {<<m + 1, "uniform", 0, x>>}
              IN IF x < p
                 THEN UNION {
                        UnifiedRewired(edges, i + 1,
                                       Append(done, IF nt # u /\ ~InList(<<u, nt>>, done)
                                                    THEN <<u, nt>> ELSE <<u, v>>),
                                       p, n, m + 2, t1 \cup {<<m + 2, "randint", n, nt>>})
                        : nt \in JaxValues(t1, m + 2, "randint", n, 0..(n - 1))}
                 ELSE UnifiedRewired(edges, i + 1, Append(done, <<u, v>>), p, n, m + 1, t1)
              : x \in JaxValues(tbl, m + 1, "uniform", 0, JaxUniforms)}

\* create_network(n_nodes, k=2, p) of unified_quantum_test: an edge list
\* without weights; key = jr.PRNGKey(42) at every call, np.random is not used
BuildUnified ==
    /\ Len(built) < BuildCalls
    /\ \E N \in UnifiedSizes, p \in UnifiedProbs :
       \E r \in UnifiedRewired(RingLatticeOf(N, 2), 1, <<>>, p, N, 0, jax_drawn) :
          /\ built' = Append(built, Built("unified_create_network", N, 2, p, 42, FALSE, <<>>, r[1], <<>>))
          /\ jax_drawn' = r[2]
    /\ UNCHANGED <<rng, netVars, bfsVars, extVars, callVars, mcVars, stepVars, driveVars, reproVars, ringVars, tailVars>>

\* any other np.random.normal(...) between two calls
OtherDraw ==
    /\ built # <<>>
    /\ Len(built) < BuildCalls
    /\ rng[2] < MaxDrawn
    /\ rng' = Advanced(rng, 1)
    /\ UNCHANGED <<built, jax_drawn, netVars, bfsVars, extVars, callVars, mcVars, stepVars, driveVars, reproVars, ringVars, tailVars>>

\* any other np.random.seed(s) between two calls
OtherSeed ==
    /\ built # <<>>
    /\ Len(built) < BuildCalls
    /\ \E sd \in BuildSeeds : rng' = <<sd, 0>>
    /\ UNCHANGED <<built, jax_drawn, netVars, bfsVars, extVars, callVars, mcVars, stepVars, driveVars, reproVars, ringVars, tailVars>>

InitBuild ==
    /\ BfsIdle
    /\ ExtIdle
    /\ NoNetwork
    /\ CallIdle
    /\ McOff
    /\ StepOff
    /\ DriveOff
    /\ ReproOff
    /\ RingOff
    /\ TailOff
    /\ rng \in BuildSeeds \X {1}
    /\ built = <<>>
    /\ jax_drawn = {}

NextBuild ==
    \/ BuildSeeded
    \/ BuildUnified
    \/ OtherDraw
    \/ OtherSeed

SpecBuild == InitBuild /\ [][NextBuild]_vars

\* two calls of one constructor with the same arguments, a seed among them
SameCall(a, b) ==
    /\ a.ctor = b.ctor
    /\ a.N = b.N
    /\ a.k = b.k
    /\ a.p = b.p
    /\ a.seed = b.seed
    /\ a.seed # NoSeed

\* C16: two calls of a network constructor with the same seed and the same
\* (n_nodes, mean_degree, rewire_prob) return the same edges and, per edge,
\* the same weight and original_weight, whatever is drawn between them.
C16_SameSeedSameNetwork ==
    \A i, j \in 1..Len(built) :
        SameCall(built[i], built[j]) =>
            /\ built[i].raised = built[j].raised
            /\ built[i].edges = built[j].edges
            /\ built[i].weight = built[j].weight
            /\ built[i].original_weight = built[j].original_weight

\* the same seeded call twice, of a lattice of degree 4 with a moved edge;
\* np.random was left by the first call in one state and found by the second
\* in another, under another seed
C16_Witness ==
    /\ Len(built) >= 2
    /\ SameCall(built[1], built[2])
    /\ built[1].ctor = "create_network"
    /\ built[1].k = 4
    /\ built[1].adj # LatticeAdjacency(built[1].N, built[1].k)
    /\ built[2].entered[1] # built[1].seed
    /\ built[2].entered[2] > 0
    /\ built[1].weight # <<>>

----------------------------------------------------------------------------
(* create_network (unified_quantum_test) and create_brain_network          *)
(* (thrml_brain_sim): a ring lattice of n_nodes * (k // 2) directed pairs, *)
(* then one pass that may move the far end of each pair.  The two          *)
(* functions have the same body.  The draws of the generator are inputs.   *)
(***************************************************************************)

\* (n_nodes, k): ordinary shapes and shapes with n_nodes < k
RingShapes == {<<3, 2>>, <<4, 2>>, <<5, 4>>, <<1, 2>>, <<3, 4>>}

\* if new_target != u and (u, new_target) not in rewired
MayRewire(u, new_target) == new_target # u /\ ~InList(<<u, new_target>>, rewired)

\* the ring lattice is built
RingLattice ==
    /\ ring_pc = "lattice"
    /\ ring_edges' = RingLatticeOf(ring_n, ring_k)
    /\ ring_i' = 1
    /\ ring_pc' = "rewire"
    /\ UNCHANGED <<ring_ctor, ring_n, ring_k, rewired, ring_rewires,
                   netVars, bfsVars, extVars, callVars, mcVars, stepVars, driveVars, reproVars, buildVars, tailVars>>

\* one iteration of `for u, v in edges`, jr.uniform(subkey) >= p
RewireKeep ==
    /\ ring_pc = "rewire"
    /\ ring_i <= Len(ring_edges)
    /\ rewired' = Append(rewired, ring_edges[ring_i])
    /\ ring_i' = ring_i + 1
    /\ UNCHANGED <<ring_ctor, ring_n, ring_k, ring_edges, ring_rewires, ring_pc,
                   netVars, bfsVars, extVars, callVars, mcVars, stepVars, driveVars, reproVars, buildVars, tailVars>>

\* one iteration of `for u, v in edges`, jr.uniform(subkey) < p
RewireDraw ==
    /\ ring_pc = "rewire"
    /\ ring_i <= Len(ring_edges)
    /\ ring_rewires < MaxRewires
    /\ \E new_target \in 0..(ring_n - 1) :
          LET u == ring_edges[ring_i][1]
          IN rewired' = Append(rewired, IF MayRewire(u, new_target)
                                        THEN <<u, new_target>>
                                        ELSE ring_edges[ring_i])
    /\ ring_i' = ring_i + 1
    /\ ring_rewires' = ring_rewires + 1
    /\ UNCHANGED <<ring_ctor, ring_n, ring_k, ring_edges, ring_pc,
                   netVars, bfsVars, extVars, callVars, mcVars, stepVars, driveVars, reproVars, buildVars, tailVars>>

\* return rewired
RingReturn ==
    /\ ring_pc = "rewire"
    /\ ring_i > Len(ring_edges)
    /\ ring_pc' = "returned"
    /\ UNCHANGED <<ring_ctor, ring_n, ring_k, ring_edges, ring_i, rewired, ring_rewires,
                   netVars, bfsVars, extVars, callVars, mcVars, stepVars, driveVars, reproVars, buildVars, tailVars>>

InitRing ==
    /\ BfsIdle
    /\ ExtIdle
    /\ NoNetwork
    /\ CallIdle
    /\ McOff
    /\ StepOff
    /\ DriveOff
    /\ ReproOff
    /\ BuildOff
    /\ TailOff
    /\ ring_ctor \in {"create_network", "create_brain_network"}
    /\ \E sh \in RingShapes : ring_n = sh[1] /\ ring_k = sh[2]
    /\ ring_edges = <<>>
    /\ ring_i = 0
    /\ rewired = <<>>
    /\ ring_rewires = 0
    /\ ring_pc = "lattice"

NextRing ==
    \/ RingLattice
    \/ RewireKeep
    \/ RewireDraw
    \/ RingReturn

SpecRing == InitRing /\ [][NextRing]_vars

NoSelfLoop(list) == \A i \in 1..Len(list) : list[i][1] # list[i][2]

NoRepeatedPair(list) ==
    \A i, j \in 1..Len(list) : i # j => list[i] # list[j]

NoRepeatedEdge(list) ==
    \A i, j \in 1..Len(list) :
        i # j => {list[i][1], list[i][2]} # {list[j][1], list[j][2]}

\* C17: for n_nodes > k the returned edge list has no self-loop, no ordered
\* pair twice and no unordered pair twice, whatever the rewiring draws are,
\* and its length is n_nodes * (k div 2).
C17_RewiredListIsSimple ==
    (ring_pc = "returned" /\ ring_n > ring_k) =>
        /\ NoSelfLoop(rewired)
        /\ NoRepeatedPair(rewired)
        /\ NoRepeatedEdge(rewired)
        /\ Len(rewired) = ring_n * (ring_k \div 2)

\* C19: a call with n_nodes < k fails and returns no edge list.
C19_DegenerateShapeReturnsNothing ==
    ~(ring_pc = "returned" /\ ring_n < ring_k)

----------------------------------------------------------------------------
\* C18: avalanche_size rejects a threshold <= 0 before any propagation: it
\* visits nothing and does not return a size for such a threshold.
C18_NonPositiveThresholdRejected ==
    (bfs_pc \in {"loop", "done"} /\ threshold <= 0) =>
        (visited = {} /\ bfs_pc # "done")

----------------------------------------------------------------------------
\* C20: when fraction * |E| rounds to zero, apply_bias leaves every weight
\* unchanged and issues a warning to its caller.
C20_ZeroBiasWarns ==
    (last_run = "apply_bias" /\ RoundTenths(Len(edge_list), bias_fraction) = 0) =>
        (ModifiedEdges = {} /\ warnings # <<>>)

----------------------------------------------------------------------------
(* run_epoch_based_thrml (unified_quantum_test): the per-node biases       *)
(* handed to the Ising model in the coherent and in the effect phase of    *)
(* each epoch.  The sampling itself is left out.  A bias is a fraction     *)
(* <<numerator, denominator>>; bias_strength is in 0.1 units.              *)
(***************************************************************************)

IsingSizes == {2, 3}
IsingModes == {"none", "positive", "negative", "mimic"}
IsingStrengths == {3, 5}

\* np.random.randn(): the values a draw is taken from
RandnValues == {-2, -1, 1}

\* np.abs(biases_effect).sum()
AbsSum(draws) == SumOver([i \in DOMAIN draws |-> Abs(draws[i])], DOMAIN draws)

SameFraction(a, b) == a[1] * b[2] = b[1] * a[2]

\* biases_coherent = np.zeros(n_nodes)
BiasesCoherent == [i \in 0..(ising_n - 1) |-> <<0, 1>>]

\* biases_effect[hubs] = +/-bias_strength
BiasesOnHubs(sign) ==
    [i \in 0..(ising_n - 1) |-> IF i \in ising_hubs THEN <<sign * ising_strength, 1>> ELSE <<0, 1>>]

\* total_bias = bias_strength * len(hubs); biases_effect = np.random.randn(n_nodes);
\* biases_effect = biases_effect / np.abs(biases_effect).sum() * total_bias
BiasesMimic(draws) ==
    [i \in 0..(ising_n - 1) |->
        <<draws[i + 1] * ising_strength * Cardinality(ising_hubs), AbsSum(draws)>>]

\* the coherent phase of an epoch
IsingCoherent ==
    /\ ising_pc = "coherent"
    /\ ising_epoch < IsingEpochs
    /\ ising_biases' = BiasesCoherent
    /\ ising_pc' = "effect"
    /\ UNCHANGED <<ising_n, ising_hubs, ising_mode, ising_strength, ising_epoch,
                   netVars, bfsVars, extVars, callVars, mcVars, stepVars,
                   driveVars, reproVars, buildVars, ringVars, warnVars, orVars, statVars, cascVars>>

\* the effect phase of an epoch
IsingEffect ==
    /\ ising_pc = "effect"
    /\ \/ ising_mode = "positive" /\ ising_biases' = BiasesOnHubs(1)
       \/ ising_mode = "negative" /\ ising_biases' = BiasesOnHubs(-1)
       \/ ising_mode = "mimic" /\ \E draws \in [1..ising_n -> RandnValues] :
                                      ising_biases' = BiasesMimic(draws)
       \/ ising_mode = "none" /\ ising_biases' = BiasesCoherent
    /\ ising_epoch' = ising_epoch + 1
    /\ ising_pc' = IF ising_epoch + 1 < IsingEpochs THEN "coherent" ELSE "returned"
    /\ UNCHANGED <<ising_n, ising_hubs, ising_mode, ising_strength,
                   netVars, bfsVars, extVars, callVars, mcVars, stepVars,
                   driveVars, reproVars, buildVars, ringVars, warnVars, orVars, statVars, cascVars>>

InitIsing ==
    /\ BfsIdle
    /\ ExtIdle
    /\ NoNetwork
    /\ CallIdle
    /\ McOff
    /\ StepOff
    /\ DriveOff
    /\ ReproOff
    /\ BuildOff
    /\ RingOff
    /\ NoWarnings
    /\ OrOff
    /\ StatOff
    /\ CascOff
    /\ ising_n \in IsingSizes
    /\ ising_hubs \in (SUBSET (0..(ising_n - 1))) \ {{}}
    /\ ising_mode \in IsingModes
    /\ ising_strength \in IsingStrengths
    /\ ising_epoch = 0
    /\ ising_pc = "coherent"
    /\ ising_biases = <<>>

NextIsing == IsingCoherent \/ IsingEffect

SpecIsing == InitIsing /\ [][NextIsing]_vars

\* the effect phase of some epoch has just set the biases
EffectBiasesSet == ising_epoch > 0 /\ ising_pc \in {"coherent", "returned"}

\* C21: the mimic condition gives every node one and the same additive
\* bias; no two nodes differ in their offset.
C21_MimicDeltaIsShared ==
    (ising_mode = "mimic" /\ EffectBiasesSet) =>
        \A i, j \in 0..(ising_n - 1) : SameFraction(ising_biases[i], ising_biases[j])

----------------------------------------------------------------------------
\* the bin simulated last is one at which the bias is added: every bin of
\* simulate_time_bins, the bins of the effect windows of simulate_epochs
BiasActs == sim = "time_bins" \/ LastTimeInEpoch >= shape.coherence_bins

\* C22: at every bin of simulate_time_bins and simulate_epochs every node's
\* firing probability lies in [0, 1]; a node the bias is added to has exactly
\* min(1, max(0, prob_fire + signed strength)), every node that is not a
\* bias node has exactly prob_fire.
C22_ProbabilitiesClipped ==
    active_counts # <<>> =>
        \A v \in nodes :
            /\ prob[v] >= 0
            /\ prob[v] <= 100
            /\ (v \in bias_nodes /\ BiasActs) =>
                   prob[v] = Max(0, 0 - Max(0 - 100, 0 - (prob_fire + step_bias)))
            /\ v \notin bias_nodes => prob[v] = prob_fire

\* a bias node whose biased probability had to be cut off at 0, next to a
\* node without bias
C22_Witness ==
    /\ active_counts # <<>>
    /\ BiasActs
    /\ prob_fire + step_bias < 0
    /\ \E v \in bias_nodes : prob[v] = 0
    /\ \E v \in nodes \ bias_nodes : prob[v] = prob_fire /\ prob_fire > 0

----------------------------------------------------------------------------
(* Per-run skewness: analyze_will_variance (avalanche_bias_sim) and        *)
(* monte_carlo_comparison (integrated_quantum_avalanche_sim).  A result is *)
(* [nan, m3]: whether it is NaN, and otherwise n^3 times the third central *)
(* moment, which is zero exactly when the skewness is zero.                *)
(***************************************************************************)

SampleValues == {1, 2, 4}

SkewSamples == UNION {[1..n -> SampleValues] : n \in 1..MaxSample}

IsNaN == [nan |-> TRUE, m3 |-> 0]

\* np.mean(((x - np.mean(x)) / np.std(x))**3): with np.std(x) = 0 every
\* quotient is 0 / 0, a NaN, and so is their mean
SkewUnguarded(x) ==
    IF StdPositive(x) THEN [nan |-> FALSE, m3 |-> ThirdMoment(x)] ELSE IsNaN

\* if np.std(x) > 0: stats.skew(x) else: 0
SkewGuarded(x) ==
    IF StdPositive(x) THEN [nan |-> FALSE, m3 |-> ThirdMoment(x)] ELSE [nan |-> FALSE, m3 |-> 0]

\* analyze_will_variance: 'classical_skew' / 'quantum_skew'
AnalyzeWillVariance ==
    /\ stat_pc = "ready"
    /\ stat_fn = "analyze_will_variance"
    /\ stat_result' = SkewUnguarded(stat_sample)
    /\ stat_pc' = "done"
    /\ UNCHANGED <<stat_fn, stat_sample, stat_xmin,
                   netVars, bfsVars, extVars, callVars, mcVars, stepVars,
                   driveVars, reproVars, buildVars, ringVars, warnVars, orVars, isingVars, cascVars>>

\* monte_carlo_comparison: results['skewness'].append(...)
MonteCarloComparisonSkew ==
    /\ stat_pc = "ready"
    /\ stat_fn = "monte_carlo_comparison"
    /\ stat_result' = SkewGuarded(stat_sample)
    /\ stat_pc' = "done"
    /\ UNCHANGED <<stat_fn, stat_sample, stat_xmin,
                   netVars, bfsVars, extVars, callVars, mcVars, stepVars,
                   driveVars, reproVars, buildVars, ringVars, warnVars, orVars, isingVars, cascVars>>

InitSkew ==
    /\ BfsIdle
    /\ ExtIdle
    /\ NoNetwork
    /\ CallIdle
    /\ McOff
    /\ StepOff
    /\ DriveOff
    /\ ReproOff
    /\ BuildOff
    /\ RingOff
    /\ NoWarnings
    /\ OrOff
    /\ IsingOff
    /\ CascOff
    /\ stat_fn \in {"analyze_will_variance", "monte_carlo_comparison"}
    /\ stat_sample \in SkewSamples
    /\ stat_xmin = 0
    /\ stat_result = <<>>
    /\ stat_pc = "ready"

NextSkew == AnalyzeWillVariance \/ MonteCarloComparisonSkew

SpecSkew == InitSkew /\ [][NextSkew]_vars

\* C23: the skewness of a sample of standard deviation 0 (constant, or of
\* one element) is reported as 0 and never as NaN, wherever it is computed.
C23_ZeroStdSkewIsZero ==
    (stat_pc = "done" /\ ~StdPositive(stat_sample)) =>
        (~stat_result.nan /\ stat_result.m3 = 0)

----------------------------------------------------------------------------
(* Power-law fitting: fit_power_law (quantum_avalanche_epochs and          *)
(* unified_quantum_test, the same body) and fit_powerlaw                   *)
(* (quantum_avalanche_v3).  Sizes are 1 or 2; the logarithm is to base 2,  *)
(* so log(x / xmin) is 0 or 1.  A result is [nan, n, logsum]: alpha is NaN,*)
(* or 1 + n / logsum.  stat_xmin = 0 stands for x_min=None of fit_powerlaw.*)
(***************************************************************************)

FitValues == {1, 2}

FitSamples == UNION {[1..n -> FitValues] : n \in 0..MaxFitSample}

\* faulty variant: nine samples are taken to be enough
FewerSamplesNeeded == 10 - 1

\* if len(sizes) < 10: return np.nan, np.nan
MinFitSamples == 10

NaNSentinel == [nan |-> TRUE, n |-> 0, logsum |-> 0]

\* if x_min is None: x_min = sizes.min()
XMinUsed(x) == IF stat_xmin = 0 THEN Min({x[i] : i \in DOMAIN x}) ELSE stat_xmin

\* sizes = sizes[sizes >= xmin]
AtLeast(x, xmin) == SelectSeq(x, LAMBDA v : v >= xmin)

\* np.sum(np.log(sizes / xmin)), in units of log 2
LogSum(x, xmin) == SumSeq([i \in DOMAIN x |-> IF x[i] = 2 * xmin THEN 1 ELSE 0])

\* the fit, or the sentinel when fewer than ten sizes are left
MLE(x, xmin) ==
    IF Len(AtLeast(x, xmin)) < MinFitSamples
    THEN NaNSentinel
    ELSE [nan |-> FALSE, n |-> Len(AtLeast(x, xmin)), logsum |-> LogSum(AtLeast(x, xmin), xmin)]

\* fit_power_law(sizes, xmin)
FitPowerLaw ==
    /\ stat_pc = "ready"
    /\ stat_fn = "fit_power_law"
    /\ stat_result' = MLE(stat_sample, stat_xmin)
    /\ stat_pc' = "done"
    /\ UNCHANGED <<stat_fn, stat_sample, stat_xmin,
                   netVars, bfsVars, extVars, callVars, mcVars, stepVars,
                   driveVars, reproVars, buildVars, ringVars, warnVars, orVars, isingVars, cascVars>>

\* fit_powerlaw(sizes, x_min, x_max=None): the sizes are finite and positive,
\* so the first filters keep them all; an empty input returns the sentinel
\* before x_min is looked at
FitPowerlawV3 ==
    /\ stat_pc = "ready"
    /\ stat_fn = "fit_powerlaw"
    /\ stat_result' = IF stat_sample = <<>> THEN NaNSentinel
                      ELSE MLE(stat_sample, XMinUsed(stat_sample))
    /\ stat_pc' = "done"
    /\ UNCHANGED <<stat_fn, stat_sample, stat_xmin,
                   netVars, bfsVars, extVars, callVars, mcVars, stepVars,
                   driveVars, reproVars, buildVars, ringVars, warnVars, orVars, isingVars, cascVars>>

InitFit ==
    /\ BfsIdle
    /\ ExtIdle
    /\ NoNetwork
    /\ CallIdle
    /\ McOff
    /\ StepOff
    /\ DriveOff
    /\ ReproOff
    /\ BuildOff
    /\ RingOff
    /\ NoWarnings
    /\ OrOff
    /\ IsingOff
    /\ CascOff
    /\ stat_fn \in {"fit_power_law", "fit_powerlaw"}
    /\ stat_sample \in FitSamples
    /\ stat_xmin \in IF stat_fn = "fit_powerlaw" THEN {0, 1, 2} ELSE {1, 2}
    /\ stat_result = <<>>
    /\ stat_pc = "ready"

NextFit == FitPowerLaw \/ FitPowerlawV3

SpecFit == InitFit /\ [][NextFit]_vars

\* the number of input sizes that are >= x_min (the smallest size when no
\* x_min is given)
Qualifying ==
    Cardinality({i \in DOMAIN stat_sample :
                    stat_sample[i] >= (IF stat_xmin = 0 THEN 1 ELSE stat_xmin)})

\* C24: the fit returns the NaN sentinel exactly when fewer than 10 of the
\* input sizes are >= x_min, the empty input included, and a fit over the
\* qualifying sizes otherwise; it does not fail.
C24_FitNeedsTenQualifying ==
    stat_pc = "done" =>
        /\ stat_result.nan <=> Qualifying < 10
        /\ ~stat_result.nan => stat_result.n = Qualifying

\* eleven sizes of which nine qualify: the sentinel is returned
C24_Witness ==
    /\ stat_pc = "done"
    /\ Len(stat_sample) = 11
    /\ Qualifying = 9
    /\ stat_result.nan

----------------------------------------------------------------------------
\* flip count i is above mean_flips * (1 + 0.1), the mean taken over the
\* whole history
AboveMeanFlips(i) ==
    LET n == Len(trace) - 1
        total == SumOver([k \in 1..n |-> Hamming(trace[k], trace[k + 1])], 1..n)
    IN Hamming(trace[i], trace[i + 1]) * n * 10 > total * 11

\* the steps of the maximal runs of such flip counts, run by run
FlipRunStarts ==
    {i \in 1..(Len(trace) - 1) : AboveMeanFlips(i) /\ (i = 1 \/ ~AboveMeanFlips(i - 1))}

FlipRunEnd(i) ==
    CHOOSE j \in i..(Len(trace) - 1) :
        /\ \A k \in i..j : AboveMeanFlips(k)
        /\ (j = Len(trace) - 1 \/ ~AboveMeanFlips(j + 1))

FlipRunSizes ==
    [r \in 1..Cardinality(FlipRunStarts) |->
        LET i == SortedSeq(FlipRunStarts)[r]
        IN SumOver([k \in 1..(Len(trace) - 1) |-> Hamming(trace[k], trace[k + 1])],
                   i..FlipRunEnd(i))]

\* C25: compute_avalanches_size classifies step i active exactly when its
\* flip count exceeds mean_flips * (1 + threshold) and returns, per maximal
\* run of active steps, the sum of the run's flip counts; a history of fewer
\* than 2 configurations, or with all flip counts equal, gives no avalanche.
C25_FlipCountExtraction ==
    (ext_pc = "done" /\ extractor = "size") =>
        /\ Len(trace) < 2 => ext_result = <<>>
        /\ Len(trace) >= 2 => ext_result = FlipRunSizes
        /\ (\A i, j \in DOMAIN FlipCounts : FlipCounts[i] = FlipCounts[j]) => ext_result = <<>>

\* a history whose first two steps form one avalanche and whose last step is
\* below the cut-off
C25_Witness ==
    /\ ext_pc = "done"
    /\ extractor = "size"
    /\ Len(trace) = 4
    /\ AboveMeanFlips(1) /\ AboveMeanFlips(2) /\ ~AboveMeanFlips(3)
    /\ ext_result = <<FlipCounts[1] + FlipCounts[2]>>

----------------------------------------------------------------------------
\* C26: no operation on a created network (reset_network, apply_bias, the
\* run_* conditions, run_avalanches, avalanche_size) changes an edge's
\* original_weight, the edge list or the node set; only weight is written.
C26_BaselineAndEdgesNeverWritten ==
    [][/\ original_weight' = original_weight
       /\ edge_list' = edge_list
       /\ adj' = adj
       /\ nodes' = nodes]_vars

\* a biased condition and then the mimic have run, and the mimic has left
\* boosted weights behind
C26_Witness ==
    /\ Returned("mimic")
    /\ n_evals > 0
    /\ \E i \in EdgeIdx : weight[i] # original_weight[i]
    /\ original_weight \in [EdgeIdx -> CallWeights]

----------------------------------------------------------------------------
\* C27: avalanche_size terminates on every graph, source and threshold: the
\* queue runs empty and the size is returned; a node is counted once however
\* often it was enqueued, so the size never exceeds the number of nodes.
C27_AvalancheTerminatesWithinNodes ==
    /\ <>(bfs_pc = "done" /\ queue = <<>>)
    /\ [](size <= Cardinality(nodes) /\ size = Cardinality(visited))

\* a node waits in the queue twice while the cascade is running
C27_Witness ==
    /\ bfs_pc = "loop"
    /\ size >= 2
    /\ \E i, j \in 1..Len(queue) : i < j /\ queue[i] = queue[j] /\ queue[i] \notin visited

----------------------------------------------------------------------------
\* v has a neighbour that was active in the bin before, joined to it by an
\* edge of weight above the threshold
ReachedFromLastBin(v) ==
    \E u \in last_active_mask, i \in EdgeIdx :
        /\ edge_list[i] \in {<<u, v>>, <<v, u>>}
        /\ weight[i] > base_threshold

\* C28: without refractory mode a node is active in a bin exactly when it
\* fired spontaneously in that bin or a neighbour active in the bin before
\* reaches it over an edge of weight above the threshold; in the first bin
\* only spontaneous firing activates; the count recorded is the number of
\* active nodes, between 0 and N.
C28_ActiveIffSpontaneousOrNeighbour ==
    [][(~refractory /\ BinSimulated) =>
          /\ \A v \in nodes :
                v \in last_active_mask' <=> (v \in last_spontaneous' \/ ReachedFromLastBin(v))
          /\ active_counts = <<>> => last_active_mask' = last_spontaneous'
          /\ active_counts'[Len(active_counts')] = Cardinality(last_active_mask')
          /\ active_counts'[Len(active_counts')] \in 0..Cardinality(nodes)]_vars

\* after the first bin, a node is active without having fired spontaneously
\* while another node stayed inactive
C28_Witness ==
    /\ ~refractory
    /\ Len(active_counts) >= 2
    /\ last_active_mask \ last_spontaneous # {}
    /\ last_active_mask # nodes

----------------------------------------------------------------------------
(* A bias applied to a network that already carries one: apply_bias of     *)
(* quantum_avalanche_v2 and _v3, apply_or_bias of                          *)
(* integrated_quantum_avalanche_sim, version "integrated", and             *)
(* apply_quantum_bias of brain_cascade_animation, version "animation",     *)
(* which resets the weights first and takes max(1, int(...)) edges as v3.  *)
(*                                                                         *)
(* apply_or_bias adds bias_strength * time_factor, which is no whole       *)
(* hundredth: for version "integrated" weights, bias strengths and the     *)
(* returned effective_bias are in units of 0.0000001 (1.00 is 10000000),   *)
(* the returned tau in units of 0.0000001 s, each rounded to the nearest   *)
(* unit.  N_tubulins is kept as its decimal exponent (1e10 is 10).         *)
(***************************************************************************)

\* 1.00 in the unit of the version
One(ver) == IF ver = "integrated" THEN 10000000 ELSE 100

\* the values of N_tubulins offered: 1e8, 1e10 (the default), 1e12
TubulinExponents == {8, 10, 12}

\* or_collapse_time(N): hbar / (N * (G * m_tubulin**2 / d_separation)),
\* 15.800485 s, 0.15800485 s and 0.0015800485 s
OrCollapseTime(N) ==
    CASE N = 8 -> 158004854
      [] N = 10 -> 1580049
      [] N = 12 -> 15800

\* time_factor = tau_neural / tau, with tau_neural = 0.1: 0.0063289195,
\* 0.63289195 and 63.289195
TimeFactorRaw(N) ==
    CASE N = 8 -> 63289
      [] N = 10 -> 6328919
      [] N = 12 -> 632891947

\* time_factor = np.clip(time_factor, 0.1, 10)
TimeFactor(N) ==
    IF TimeFactorRaw(N) < One("integrated") \div 10 THEN One("integrated") \div 10
    ELSE IF TimeFactorRaw(N) > 10 * One("integrated") THEN 10 * One("integrated")
    ELSE TimeFactorRaw(N)

\* x / d to the nearest integer
Rounded(x, d) ==
    IF x >= 0 THEN (2 * x + d) \div (2 * d) ELSE 0 - ((2 * (0 - x) + d) \div (2 * d))

\* effective_bias = bias_strength * time_factor; the strengths offered are
\* whole hundredths
EffectiveBias(strength, N) ==
    Rounded((strength \div (One("integrated") \div 100)) * (TimeFactor(N) \div 10), 10)

\* apply_bias called again on the network as the first call left it
ApplyBiasAgain ==
    /\ call_pc = "idle"
    /\ last_run = "apply_bias"
    /\ version \in {"v2", "v3"}
    /\ \E S \in BiasDraws(version, bias_fraction, AnySeed) :
          /\ bias_indices' = S
          /\ weight' = Biased(weight, S, bias_strength)
    /\ last_run' = "apply_bias_again"
    /\ UNCHANGED <<nodes, adj, edge_list, original_weight, version, call_pc, bias_fraction,
                   bias_strength, sizes, last_eval, target_mean, boost, mimic_iter,
                   n_evals, seeds, bfsVars, extVars, mcVars, stepVars, otherVars>>

\* apply_quantum_bias, first or second call: reset, then bias
ApplyQuantumBias ==
    /\ call_pc = "idle"
    /\ last_run \in {"none", "apply_bias"}
    /\ version = "animation"
    /\ \E S \in BiasDraws(version, bias_fraction, AnySeed) :
          /\ bias_indices' = S
          /\ weight' = Biased(ResetNetwork, S, bias_strength)
    /\ last_run' = IF last_run = "none" THEN "apply_bias" ELSE "apply_bias_again"
    /\ UNCHANGED <<nodes, adj, edge_list, original_weight, version, call_pc, bias_fraction,
                   bias_strength, sizes, last_eval, target_mean, boost, mimic_iter,
                   n_evals, seeds, bfsVars, extVars, mcVars, stepVars, otherVars>>

\* apply_or_bias(G, bias_fraction, bias_strength, N_tubulins, seed), first or
\* second call: no reset, effective_bias added to int(...) drawn edges (none
\* drawn: no edge changed), (tau, effective_bias) returned
ApplyOrBias ==
    /\ call_pc = "idle"
    /\ last_run \in {"none", "apply_bias"}
    /\ version = "integrated"
    /\ \E S \in BiasDraws(version, bias_fraction, AnySeed) :
          /\ bias_indices' = S
          /\ weight' = Biased(weight, S, EffectiveBias(bias_strength, N_tubulins))
    /\ or_returned' = <<OrCollapseTime(N_tubulins), EffectiveBias(bias_strength, N_tubulins)>>
    /\ last_run' = IF last_run = "none" THEN "apply_bias" ELSE "apply_bias_again"
    /\ UNCHANGED <<nodes, adj, edge_list, original_weight, version, call_pc, bias_fraction,
                   bias_strength, sizes, last_eval, target_mean, boost, mimic_iter,
                   n_evals, seeds, bfsVars, extVars, mcVars, stepVars,
                   driveVars, reproVars, buildVars, ringVars, warnVars, N_tubulins,
                   isingVars, statVars, cascVars>>

InitRebias ==
    /\ BfsIdle
    /\ ExtIdle
    /\ StepOff
    /\ DriveOff /\ ReproOff /\ BuildOff /\ RingOff
    /\ NoWarnings /\ IsingOff /\ StatOff /\ CascOff
    /\ McOff
    /\ version \in {"v2", "v3", "animation", "integrated"}
    /\ \E E \in 1..MaxEdges : PathNetworkAt(E, One(version))
    /\ bias_fraction \in BiasFractions
    /\ bias_strength \in {b * (One(version) \div 100) : b \in BiasStrengths}
    /\ N_tubulins \in IF version = "integrated" THEN TubulinExponents ELSE {0}
    /\ or_returned = <<>>
    /\ call_pc = "idle"
    /\ last_run = "none"
    /\ bias_indices = {}
    /\ sizes = <<>>
    /\ last_eval = <<>>
    /\ target_mean = <<0, 1>>
    /\ boost = 0
    /\ mimic_iter = 0
    /\ n_evals = 0
    /\ seeds = <<>>

NextRebias == ApplyBiasV2 \/ ApplyBiasV3 \/ ApplyBiasAgain \/ ApplyQuantumBias \/ ApplyOrBias

SpecRebias == InitRebias /\ [][NextRebias]_vars

\* C29: after a bias operation, whatever the network carried before, every
\* selected edge is at original_weight + strength and every other edge at
\* original_weight; a second application never leaves an edge at
\* original_weight + 2 * strength.
C29_BiasStartsFromBaseline ==
    last_run \in {"apply_bias", "apply_bias_again"} =>
        \A i \in EdgeIdx :
            weight[i] = original_weight[i] + (IF i \in bias_indices THEN bias_strength ELSE 0)

----------------------------------------------------------------------------
(* simulate_cascade_steps(G, source, threshold, max_steps) of              *)
(* brain_cascade_animation and enhanced_brain_viz (the same body): the     *)
(* cascade of avalanche_size, returned as the set of nodes activated at    *)
(* each step.  source and threshold are the variables of avalanche_size.   *)
(***************************************************************************)

\* the values of max_steps offered
CascadeMaxSteps == {1, 3}

\* faulty variant: a node already activated is activated again
ActivatedOrNot(v) == TRUE

\* if v not in activated
NotActivated(v) == v \notin casc_activated

\* new_frontier: the nodes not yet activated that a node of the frontier
\* reaches over an edge of weight > threshold
NewFrontier ==
    {v \in nodes : /\ NotActivated(v)
                   /\ \E u \in casc_frontier :
                         v \in Neighbors(u) /\ Propagates(EdgeWeight(weight, u, v), threshold)}

\* one pass of `for _ in range(max_steps)` that finds new nodes
CascadeStep ==
    /\ casc_pc = "loop"
    /\ casc_iter < casc_max
    /\ NewFrontier # {}
    /\ casc_activated' = casc_activated \cup NewFrontier
    /\ casc_steps' = Append(casc_steps, NewFrontier)
    /\ casc_frontier' = NewFrontier
    /\ casc_iter' = casc_iter + 1
    /\ UNCHANGED <<casc_max, casc_pc,
                   netVars, bfsVars, extVars, callVars, mcVars, stepVars,
                   driveVars, reproVars, buildVars, ringVars, warnVars, orVars, isingVars, statVars>>

\* if not new_frontier: break; return steps
CascadeBreak ==
    /\ casc_pc = "loop"
    /\ casc_iter < casc_max
    /\ NewFrontier = {}
    /\ casc_pc' = "returned"
    /\ UNCHANGED <<casc_activated, casc_frontier, casc_steps, casc_iter, casc_max,
                   netVars, bfsVars, extVars, callVars, mcVars, stepVars,
                   driveVars, reproVars, buildVars, ringVars, warnVars, orVars, isingVars, statVars>>

\* the loop has made max_steps passes; return steps
CascadeExhausted ==
    /\ casc_pc = "loop"
    /\ casc_iter = casc_max
    /\ casc_pc' = "returned"
    /\ UNCHANGED <<casc_activated, casc_frontier, casc_steps, casc_iter, casc_max,
                   netVars, bfsVars, extVars, callVars, mcVars, stepVars,
                   driveVars, reproVars, buildVars, ringVars, warnVars, orVars, isingVars, statVars>>

\* activated = set(); frontier = {source}; steps = [frontier.copy()];
\* activated.add(source)
InitCascade ==
    /\ ExtIdle
    /\ CallIdle
    /\ McOff
    /\ StepOff
    /\ DriveOff
    /\ ReproOff
    /\ BuildOff
    /\ RingOff
    /\ NoWarnings
    /\ OrOff
    /\ IsingOff
    /\ StatOff
    /\ BfsGraph
    /\ source \in 0..(BfsNodes - 1)
    /\ threshold \in BfsThresholds
    /\ visited = {}
    /\ queue = <<>>
    /\ size = 0
    /\ bfs_pc = "idle"
    /\ casc_activated = {source}
    /\ casc_frontier = {source}
    /\ casc_steps = <<{source}>>
    /\ casc_iter = 0
    /\ casc_max \in CascadeMaxSteps
    /\ casc_pc = "loop"

NextCascade == CascadeStep \/ CascadeBreak \/ CascadeExhausted

SpecCascade == InitCascade /\ [][NextCascade]_vars

\* the nodes at hop distance d from the source over edges of weight > threshold
AtDistance(d) ==
    IF d = 0 THEN {source} ELSE ReachWithin(source, d) \ ReachWithin(source, d - 1)

\* every node the cascade reaches is within max_steps hops of the source
DepthWithinMaxSteps == ReachWithin(source, casc_max) = ReachWithin(source, Cardinality(nodes))

\* C30: the sets returned by simulate_cascade_steps are pairwise disjoint,
\* set d holds exactly the nodes at hop distance d from the source over
\* edges of weight > threshold, and when the depth of the cascade is at most
\* max_steps the sets together hold avalanche_size(G, source, threshold)
\* nodes.
C30_StepsAgreeWithAvalancheSize ==
    casc_pc = "returned" =>
        /\ \A a, b \in 1..Len(casc_steps) : a # b => casc_steps[a] \cap casc_steps[b] = {}
        /\ \A a \in 1..Len(casc_steps) : casc_steps[a] = AtDistance(a - 1)
        /\ DepthWithinMaxSteps =>
              SumSeq([a \in 1..Len(casc_steps) |-> Cardinality(casc_steps[a])])
                  = AvalancheSize(weight, source, threshold)

\* a cascade of two hops that reaches every node and is returned in full, on
\* a network one edge of which does not propagate
C30_Witness ==
    /\ casc_pc = "returned"
    /\ Len(casc_steps) = 3
    /\ DepthWithinMaxSteps
    /\ \E i \in EdgeIdx : weight[i] <= threshold
    /\ AvalancheSize(weight, source, threshold) = 3

====
